---- MODULE Spec2Model ----
(***************************************************************************)
(* Model of OCR_Form_extraction: the extraction validator                  *)
(* (app/utils/validation.py, class ExtractionValidator), the bounding box  *)
(* of the OCR wrapper (app/utils/ocr.py), the structured extraction        *)
(* (app/utils/openai_extractor.py) and the statistics tracker              *)
(* (archive/utils/statistics_tracker.py).                                  *)
(*                                                                         *)
(* The code is synchronous: a call runs to its end before the next one     *)
(* starts.  A behaviour of the model is one call, or the calls made one    *)
(* after another on one validator or one tracker: Init draws the call      *)
(* (operation and arguments) from bounded sets, and the operation's action *)
(* runs the whole method and stores what it returns and what it leaves.    *)
(*                                                                         *)
(* Python strings are sequences of one-character strings, so that regular- *)
(* expression matching, strip(), endswith(), split() and int() are         *)
(* computed character by character as the interpreter computes them.       *)
(* Floats are exact rationals [num, den] in lowest terms.                  *)
(***************************************************************************)
EXTENDS Integers, Sequences, FiniteSets, TLC

VARIABLES
    pc,          \* "call": the call is about to run; "done": it has returned or raised
    call,        \* the operation invoked and its arguments
    ret,         \* what the call returned (NoRet before it has)
    findings,    \* the warnings and errors the consistency checks have logged
    injury_date, \* the validator's attribute injury_date, <<>> while it has none
    files,       \* the extraction files written to the extraction directory
    history,     \* the calls made so far on one instance, with what each did
    data         \* the attribute data of the StatisticsTracker

vars == <<pc, call, ret, findings, injury_date, files, history, data>>

NoRet == [none |-> TRUE]

\* StatisticsTracker._load_data without a file: no document, no statistics
NoData == [documents |-> <<>>, field_stats |-> <<>>]

(***************************************************************************)
(* Bounds of the model.                                                    *)
(***************************************************************************)
\* longest run of digits in a validate_format value
MaxDigits == 11

\* lists of spans given to validate_extraction: at most MaxHeadRun copies of
\* one span followed by at most MaxTailRun copies of another
MaxHeadRun == 21
MaxTailRun == 2

\* longest list of arbitrary elements given to _extract_bounding_box
MaxPolygonLen == 3
MaxElements == 3
MaxCalls == 3

(***************************************************************************)
(* Python str primitives.                                                  *)
(***************************************************************************)
DigitChars == {"0", "1", "2", "3", "4", "5", "6", "7", "8", "9"}

\* the characters str.strip() and int() treat as whitespace
SpaceChars == {" ", "\t", "\n"}

\* c.isdigit() / the class \d, for one character
IsDigit(c) == c \in DigitChars

\* s.isdigit(): non-empty and every character a digit
isdigit(s) == Len(s) > 0 /\ \A i \in 1..Len(s) : IsDigit(s[i])

\* s.strip()
strip(s) ==
    LET keep == {i \in 1..Len(s) : s[i] \notin SpaceChars}
    IN  IF keep = {} THEN <<>>
        ELSE LET lo == CHOOSE i \in keep : \A j \in keep : i <= j
                 hi == CHOOSE i \in keep : \A j \in keep : j <= i
             IN  SubSeq(s, lo, hi)

\* s.endswith(suffix)
endswith(s, suffix) ==
    /\ Len(suffix) <= Len(s)
    /\ SubSeq(s, Len(s) - Len(suffix) + 1, Len(s)) = suffix

\* sub in s
contains(s, sub) ==
    \E i \in 0..(Len(s) - Len(sub)) : SubSeq(s, i + 1, i + Len(sub)) = sub

\* s.split(".")[-1]: what follows the last dot, the whole of s when it has none
split_last(s) ==
    LET dots == {i \in 1..Len(s) : s[i] = "."}
    IN  IF dots = {} THEN s
        ELSE LET d == CHOOSE i \in dots : \A j \in dots : j <= i
             IN  SubSeq(s, d + 1, Len(s))

\* the decimal value of a non-empty sequence of digits
RECURSIVE DigitsValue(_)
DigitsValue(s) ==
    IF Len(s) = 0 THEN 0
    ELSE 10 * DigitsValue(SubSeq(s, 1, Len(s) - 1))
         + (CHOOSE d \in 0..9 :
                <<"0", "1", "2", "3", "4", "5", "6", "7", "8", "9">>[d + 1] = s[Len(s)])

\* str(n) for n >= 0
RECURSIVE NatToStr(_)
NatToStr(n) ==
    LET last == <<(<<"0", "1", "2", "3", "4", "5", "6", "7", "8", "9">>)[(n % 10) + 1]>>
    IN  IF n < 10 THEN last ELSE NatToStr(n \div 10) \o last

\* int(s): surrounding whitespace is dropped, one sign is allowed, then digits;
\* anything else raises ValueError
int(s) ==
    LET t    == strip(s)
        sign == IF Len(t) > 0 /\ t[1] \in {"+", "-"} THEN t[1] ELSE ""
        body == IF sign = "" THEN t ELSE SubSeq(t, 2, Len(t))
    IN  IF isdigit(body)
        THEN [ok |-> TRUE,
              val |-> IF sign = "-" THEN 0 - DigitsValue(body) ELSE DigitsValue(body)]
        ELSE [ok |-> FALSE, val |-> 0]

(***************************************************************************)
(* Field names, as Python strings.                                         *)
(***************************************************************************)
S_idNumber      == <<"i", "d", "N", "u", "m", "b", "e", "r">>
S_mobilePhone   == <<"m", "o", "b", "i", "l", "e", "P", "h", "o", "n", "e">>
S_landlinePhone == <<"l", "a", "n", "d", "l", "i", "n", "e", "P", "h", "o", "n", "e">>
S_postalCode    == <<"p", "o", "s", "t", "a", "l", "C", "o", "d", "e">>
S_lastName      == <<"l", "a", "s", "t", "N", "a", "m", "e">>
S_firstName     == <<"f", "i", "r", "s", "t", "N", "a", "m", "e">>
S_dateOfInjury  == <<"d", "a", "t", "e", "O", "f", "I", "n", "j", "u", "r", "y">>
S_formFillingDate == <<"f", "o", "r", "m", "F", "i", "l", "l", "i", "n", "g", "D", "a", "t", "e">>
S_injuryDate    == <<"i", "n", "j", "u", "r", "y", "D", "a", "t", "e">>
S_unknownXyz    == <<"u", "n", "k", "n", "o", "w", "n", "X", "y", "z">>
S_accidentDescription == <<"a", "c", "c", "i", "d", "e", "n", "t", "D", "e", "s", "c", "r", "i", "p", "t", "i", "o", "n">>

(***************************************************************************)
(* ExtractionValidator.__init__: the pattern registry.  Every registered   *)
(* pattern has the shape ^\d{lo,hi}$ and is kept as its two repeat counts. *)
(***************************************************************************)
field_patterns_id_8_digits ==
    (S_idNumber :> [lo |-> 8, hi |-> 8])
    @@ (S_mobilePhone :> [lo |-> 10, hi |-> 10])
    @@ (S_landlinePhone :> [lo |-> 9, hi |-> 9])
    @@ (S_postalCode :> [lo |-> 5, hi |-> 7])

field_patterns ==
    (S_idNumber :> [lo |-> 9, hi |-> 9])
    @@ (S_mobilePhone :> [lo |-> 10, hi |-> 10])
    @@ (S_landlinePhone :> [lo |-> 9, hi |-> 9])
    @@ (S_postalCode :> [lo |-> 5, hi |-> 7])

\* where $ matches once k characters are consumed: at the end of the string,
\* or just before a newline that is the string's last character
DollarAt(value, k) ==
    \/ k = Len(value)
    \/ k = Len(value) - 1 /\ value[Len(value)] = "\n"

\* bool(re.match(r'^\d{lo,hi}$', value))
re_match(pattern, value) ==
    \E k \in pattern.lo..pattern.hi :
        /\ k <= Len(value)
        /\ \A i \in 1..k : IsDigit(value[i])
        /\ DollarAt(value, k)

validate_format(field, value) ==
    IF value = <<>> THEN TRUE
    ELSE IF field \notin DOMAIN field_patterns THEN TRUE
    ELSE re_match(field_patterns[field], value)

(***************************************************************************)
(* validate_date.  A date mapping is a function from some of the keys      *)
(* "day", "month", "year" to Python strings.                               *)
(***************************************************************************)
\* date_dict.get(k): None (here the empty string, equally falsy) when absent
dict_get(date_dict, k) == IF k \in DOMAIN date_dict THEN date_dict[k] ELSE <<>>

\* calendar: the leap-year rule and the month lengths of datetime
is_leap(year) == year % 4 = 0 /\ (year % 100 # 0 \/ year % 400 = 0)

days_in_month(year, month) ==
    IF month = 2 THEN (IF is_leap(year) THEN 29 ELSE 28)
    ELSE IF month \in {4, 6, 9, 11} THEN 30 ELSE 31

\* datetime(year, month, day): the ValueError it raises (datetime accepts the
\* years MINYEAR..MAXYEAR, 1..9999), "" when it builds the date
datetime_error(year, month, day) ==
    IF year < 1 \/ year > 9999 THEN "Invalid date format: year is out of range"
    ELSE IF month < 1 \/ month > 12 THEN "Invalid date format: month must be in 1..12"
    ELSE IF day < 1 \/ day > days_in_month(year, month)
         THEN "Invalid date format: day is out of range for month"
    ELSE ""

validate_complete_date_swapped(date_dict) ==
    LET y == int(date_dict["year"])
        m == int(date_dict["month"])
        d == int(date_dict["day"])
    IN  IF ~y.ok \/ ~m.ok \/ ~d.ok
        THEN [valid |-> FALSE,
              error |-> "Invalid date format: invalid literal for int() with base 10"]
        ELSE [valid |-> datetime_error(y.val, d.val, m.val) = "",
              error |-> datetime_error(y.val, d.val, m.val)]

\* the inner try block of validate_date, reached once all three components
\* are truthy: int() of year, month, day, then datetime(); a ValueError of
\* either becomes (False, "Invalid date format: ...")
validate_complete_date(date_dict) ==
    LET y == int(date_dict["year"])
        m == int(date_dict["month"])
        d == int(date_dict["day"])
    IN  IF ~y.ok \/ ~m.ok \/ ~d.ok
        THEN [valid |-> FALSE,
              error |-> "Invalid date format: invalid literal for int() with base 10"]
        ELSE [valid |-> datetime_error(y.val, m.val, d.val) = "",
              error |-> datetime_error(y.val, m.val, d.val)]

validate_date_any_present(date_dict) ==
    IF \A k \in {"day", "month", "year"} : dict_get(date_dict, k) = <<>>
    THEN [valid |-> TRUE, error |-> ""]
    ELSE IF \E k \in {"day", "month", "year"} : dict_get(date_dict, k) = <<>>
    THEN [valid |-> FALSE, error |-> "Invalid date format: incomplete date"]
    ELSE validate_complete_date(date_dict)

\* validate_date: (validity, error message)
validate_date(date_dict) ==
    IF \E k \in {"day", "month", "year"} : dict_get(date_dict, k) = <<>>
    THEN [valid |-> TRUE, error |-> ""]
    ELSE validate_complete_date(date_dict)

(***************************************************************************)
(* Exact rationals for Python floats.                                      *)
(***************************************************************************)
RECURSIVE Gcd(_, _)
Gcd(a, b) == IF b = 0 THEN a ELSE Gcd(b, a % b)

\* n / d in lowest terms, for n >= 0 and d > 0
Ratio(n, d) == [num |-> n \div Gcd(n, d), den |-> d \div Gcd(n, d)]

Zero == Ratio(0, 1)
One  == Ratio(1, 1)

RatAdd(a, b) == Ratio(a.num * b.den + b.num * a.den, a.den * b.den)
RatLeq(a, b) == a.num * b.den <= b.num * a.den

\* a - b for b <= a, a / b for b > 0, min(a, b)
RatSub(a, b) == Ratio(a.num * b.den - b.num * a.den, a.den * b.den)
RatDiv(a, b) == Ratio(a.num * b.den, a.den * b.num)
RatMin(a, b) == IF RatLeq(a, b) THEN a ELSE b

\* sum(xs) of a list of floats
RECURSIVE RatSum(_)
RatSum(xs) == IF xs = <<>> THEN Zero ELSE RatAdd(Head(xs), RatSum(Tail(xs)))

\* np.mean(xs) if xs else 0.0
mean_or_zero(xs) == IF xs = <<>> THEN Zero ELSE RatDiv(RatSum(xs), Ratio(Len(xs), 1))

(***************************************************************************)
(* Structured extractions.  A Python dict is the sequence of its entries   *)
(* [k, v] in insertion order, with distinct keys; a value is a string leaf *)
(* [str |-> s] or a nested dict [dict |-> d].                              *)
(***************************************************************************)
IsDict(v) == "dict" \in DOMAIN v

\* items[key] = val on a dict of string values: an existing key keeps its
\* place and takes the new value, a new key is appended
dict_set(items, key, val) ==
    IF \E i \in 1..Len(items) : items[i].k = key
    THEN [i \in 1..Len(items) |->
            IF items[i].k = key THEN [k |-> key, v |-> val] ELSE items[i]]
    ELSE Append(items, [k |-> key, v |-> val])

\* items.update(other)
RECURSIVE dict_update(_, _)
dict_update(items, other) ==
    IF other = <<>> THEN items
    ELSE dict_update(dict_set(items, Head(other).k, Head(other).v), Tail(other))

\* _flatten_dict(d, parent_key): the leaves of d under dotted paths
RECURSIVE _flatten_dict(_, _)
_flatten_dict(d, parent_key) ==
    IF d = <<>> THEN <<>>
    ELSE LET n       == Len(d)
             k       == d[n].k
             v       == d[n].v
             new_key == IF parent_key # <<>> THEN parent_key \o <<".">> \o k ELSE k
             items   == _flatten_dict(SubSeq(d, 1, n - 1), parent_key)
         IN  IF IsDict(v)
             THEN dict_update(items, _flatten_dict(v.dict, new_key))
             ELSE dict_set(items, new_key, v.str)

\* ExtractionValidator.__init__: the fields that should be filled
required_fields == <<S_lastName, S_firstName, S_idNumber>>

S_confidence == <<"c", "o", "n", "f", "i", "d", "e", "n", "c", "e">>

\* value and str(value).strip(): the leaf holds something besides whitespace
is_filled_untrimmed(value) == value # <<>>

is_filled(value) == value # <<>> /\ strip(value) # <<>>

\* the keys of the entries of flat_data, in order
KeysOf(entries) == [i \in 1..Len(entries) |-> entries[i].k]

\* one pass of the inner loop of the required-field check: the keys of
\* flat_data that end with field and hold no value
missing_for_exact_key(flat_data, field) ==
    LET Missing(e) == e.k = field /\ ~is_filled(e.v)
    IN  KeysOf(SelectSeq(flat_data, Missing))

\* the required name compared with the whole last segment of the path
missing_for_last_segment(flat_data, field) ==
    LET Missing(e) == split_last(e.k) = field /\ ~is_filled(e.v)
    IN  KeysOf(SelectSeq(flat_data, Missing))

missing_for(flat_data, field) ==
    LET Missing(e) == endswith(e.k, field) /\ ~is_filled(e.v)
    IN  KeysOf(SelectSeq(flat_data, Missing))

\* a check that also reports a required field that no key ends with
RECURSIVE missing_required_reporting_absent(_, _)
missing_required_reporting_absent(flat_data, fields) ==
    IF fields = <<>> THEN <<>>
    ELSE (IF \E i \in 1..Len(flat_data) : endswith(flat_data[i].k, Head(fields))
          THEN missing_for(flat_data, Head(fields))
          ELSE <<Head(fields)>>)
         \o missing_required_reporting_absent(flat_data, Tail(fields))

\* the required-field check: one pass per required field, in order
RECURSIVE missing_required(_, _)
missing_required(flat_data, fields) ==
    IF fields = <<>> THEN <<>>
    ELSE missing_for(flat_data, Head(fields)) \o missing_required(flat_data, Tail(fields))

\* the leaves the format loop checks: the path holds no "confidence" and the
\* value is filled
format_checked(flat_data) ==
    LET Checked(e) == ~contains(e.k, S_confidence) /\ is_filled(e.v)
    IN  SelectSeq(flat_data, Checked)

\* the format check of one leaf of flat_data: validate_format on the last
\* segment of its path and on its value as it stands
leaf_format_valid_full_path(e) == validate_format(e.k, e.v)

leaf_format_valid(e) == validate_format(split_last(e.k), e.v)

\* ocr_data.get("average_confidence", 0)
average_confidence(ocr_data) ==
    IF "average_confidence" \in DOMAIN ocr_data THEN ocr_data.average_confidence ELSE Zero

\* filled_fields / total_fields if total_fields > 0 else 0
score_of(count, total) == IF total > 0 THEN Ratio(count, total) ELSE Zero

\* the number of filled leaves of flat_data
filled_count_untrimmed(flat_data) ==
    Cardinality({i \in 1..Len(flat_data) : is_filled_untrimmed(flat_data[i].v)})

filled_count(flat_data) ==
    Cardinality({i \in 1..Len(flat_data) : is_filled(flat_data[i].v)})

\* accuracy.total_fields: one per leaf the format loop checks
accuracy_total_before_filled_test(flat_data) ==
    LET NoConfidence(e) == ~contains(e.k, S_confidence)
    IN  Len(SelectSeq(flat_data, NoConfidence))

accuracy_total(flat_data) == Len(format_checked(flat_data))

validate_extracted_data_rejecting_values_absent_from_ocr(structured_data, ocr_data) ==
    LET flat_data == _flatten_dict(structured_data, <<>>)
        checked   == format_checked(flat_data)
        InOcr(e)  == \E i \in 1..Len(ocr_data.text) :
                        /\ "text" \in DOMAIN ocr_data.text[i]
                        /\ contains(ocr_data.text[i].text, e.v)
        Invalid(e) == ~leaf_format_valid(e) \/ ~InOcr(e)
        invalid   == SelectSeq(checked, Invalid)
        valid_format == Len(checked) - Len(invalid)
    IN  [completeness |->
            [filled_fields    |-> filled_count(flat_data),
             total_fields     |-> Len(flat_data),
             score            |-> score_of(filled_count(flat_data), Len(flat_data)),
             missing_required |-> missing_required(flat_data, required_fields)],
         accuracy |->
            [valid_format_fields |-> valid_format,
             total_fields        |-> accuracy_total(flat_data),
             score               |-> score_of(valid_format, accuracy_total(flat_data)),
             invalid_fields      |->
                [i \in 1..Len(invalid) |->
                    [field |-> invalid[i].k, value |-> invalid[i].v,
                     reason |-> "Invalid format"]]],
         confidence |-> [score |-> average_confidence(ocr_data)]]

\* validate_extracted_data(structured_data, ocr_data): the validation result
validate_extracted_data(structured_data, ocr_data) ==
    LET flat_data == _flatten_dict(structured_data, <<>>)
        checked   == format_checked(flat_data)
        Invalid(e) == ~leaf_format_valid(e)
        invalid   == SelectSeq(checked, Invalid)
        valid_format == Len(checked) - Len(invalid)
    IN  [completeness |->
            [filled_fields    |-> filled_count(flat_data),
             total_fields     |-> Len(flat_data),
             score            |-> score_of(filled_count(flat_data), Len(flat_data)),
             missing_required |-> missing_required(flat_data, required_fields)],
         accuracy |->
            [valid_format_fields |-> valid_format,
             total_fields        |-> accuracy_total(flat_data),
             score               |-> score_of(valid_format, accuracy_total(flat_data)),
             invalid_fields      |->
                [i \in 1..Len(invalid) |->
                    [field |-> invalid[i].k, value |-> invalid[i].v,
                     reason |-> "Invalid format"]]],
         confidence |-> [score |-> average_confidence(ocr_data)]]

(***************************************************************************)
(* validate_extraction and the spatial checks.  An element of the OCR      *)
(* result is a text span, a mapping with some of the keys text, confidence *)
(* and bounding_box, or a table, a list of cells [cells |-> ...].  A box   *)
(* is a mapping with some of the keys x, y, width, height.                 *)
(***************************************************************************)
\* ExtractionValidator.__init__: the thresholds
min_confidence_threshold  == Ratio(1, 2)
spatial_overlap_threshold == Ratio(3, 10)

\* the number of spans the loop of validate_extraction goes over: text_spans[:20]
LoopSpanLimit == 20

\* a Python list has no .get: calling it raises AttributeError
IsList(element) == "cells" \in DOMAIN element

Max(a, b) == IF a >= b THEN a ELSE b
Min(a, b) == IF a <= b THEN a ELSE b

_calculate_overlap_over_first_box(bbox1, bbox2) ==
    IF ~({"x", "y", "width", "height"} \subseteq DOMAIN bbox1)
       \/ ~({"x", "y", "width", "height"} \subseteq DOMAIN bbox2)
    THEN Zero
    ELSE LET x_left   == Max(bbox1.x, bbox2.x)
             y_top    == Max(bbox1.y, bbox2.y)
             x_right  == Min(bbox1.x + bbox1.width, bbox2.x + bbox2.width)
             y_bottom == Min(bbox1.y + bbox1.height, bbox2.y + bbox2.height)
             intersection_area == (x_right - x_left) * (y_bottom - y_top)
             bbox1_area == bbox1.width * bbox1.height
         IN  IF x_right < x_left \/ y_bottom < y_top THEN Zero
             ELSE IF bbox1_area > 0 THEN Ratio(intersection_area, bbox1_area)
             ELSE Zero

\* _calculate_overlap(bbox1, bbox2): intersection over union
_calculate_overlap(bbox1, bbox2) ==
    IF ~({"x", "y", "width", "height"} \subseteq DOMAIN bbox1)
       \/ ~({"x", "y", "width", "height"} \subseteq DOMAIN bbox2)
    THEN Zero
    ELSE LET x_left   == Max(bbox1.x, bbox2.x)
             y_top    == Max(bbox1.y, bbox2.y)
             x_right  == Min(bbox1.x + bbox1.width, bbox2.x + bbox2.width)
             y_bottom == Min(bbox1.y + bbox1.height, bbox2.y + bbox2.height)
             intersection_area == (x_right - x_left) * (y_bottom - y_top)
             union_area == bbox1.width * bbox1.height + bbox2.width * bbox2.height
                           - intersection_area
         IN  IF x_right < x_left \/ y_bottom < y_top THEN Zero
             ELSE IF union_area > 0 THEN Ratio(intersection_area, union_area)
             ELSE Zero

\* span.get("bounding_box", {}) and span.get("confidence", 0)
box_or_empty(span) == IF "bounding_box" \in DOMAIN span THEN span.bounding_box ELSE <<>>
confidence_or_zero(span) == IF "confidence" \in DOMAIN span THEN span.confidence ELSE Zero

\* element.get("bounding_box") == bbox: an absent box is None, equal to no bbox
has_box(element, bbox) == "bounding_box" \in DOMAIN element /\ element.bounding_box = bbox

\* the overlaps _validate_spatial_coherence collects from mappings
RECURSIVE overlaps_of(_, _)
overlaps_of(bbox, elements) ==
    IF elements = <<>> THEN <<>>
    ELSE IF has_box(Head(elements), bbox) THEN overlaps_of(bbox, Tail(elements))
    ELSE <<_calculate_overlap(bbox, box_or_empty(Head(elements)))>>
         \o overlaps_of(bbox, Tail(elements))

\* _validate_spatial_coherence(bbox, all_elements): the score, or the
\* AttributeError of element.get on an element that is a list
_validate_spatial_coherence(bbox, all_elements) ==
    IF all_elements = <<>> THEN [raised |-> FALSE, value |-> One]
    ELSE IF \E i \in 1..Len(all_elements) : IsList(all_elements[i])
    THEN [raised |-> TRUE, value |-> Zero]
    ELSE [raised |-> FALSE,
          value  |-> RatSub(One,
                        RatMin(RatDiv(mean_or_zero(overlaps_of(bbox, all_elements)),
                                      spatial_overlap_threshold),
                               One))]

\* extraction_result.get(key, [])
list_or_empty(extraction_result, key) ==
    IF key \in DOMAIN extraction_result THEN extraction_result[key] ELSE <<>>

\* the spans whose confidence and coherence enter the global scores
scored_spans(text_spans) == SubSeq(text_spans, 1, Min(Len(text_spans), LoopSpanLimit))

\* span.get("confidence", 0) >= self.min_confidence_threshold
confidence_valid(span) == RatLeq(min_confidence_threshold, confidence_or_zero(span))

\* validate_extraction(extraction_result): the result, or the exception the
\* loop lets through
validate_extraction(extraction_result) ==
    LET text_spans == list_or_empty(extraction_result, "text")
        tables     == list_or_empty(extraction_result, "tables")
        looped     == scored_spans(text_spans)
        loop_score(i) == _validate_spatial_coherence(box_or_empty(looped[i]),
                                                     text_spans \o tables)
        validation_scores   == [i \in 1..Len(looped) |-> confidence_or_zero(looped[i])]
        spatial_validations == [i \in 1..Len(looped) |-> loop_score(i).value]
        avg_confidence      == mean_or_zero(validation_scores)
        spatial_confidence  == mean_or_zero(spatial_validations)
    IN  IF \E i \in 1..Len(looped) : loop_score(i).raised
        THEN [raised |-> "AttributeError"]
        ELSE [raised |-> "",
              validated_spans |->
                [i \in 1..Len(text_spans) |->
                    [text |-> IF "text" \in DOMAIN text_spans[i]
                              THEN text_spans[i].text ELSE <<>>,
                     confidence_valid |-> confidence_valid(text_spans[i]),
                     spatial_score |->
                        _validate_spatial_coherence(box_or_empty(text_spans[i]),
                                                    text_spans).value]],
              global_confidence |->
                RatDiv(RatAdd(avg_confidence, spatial_confidence), Ratio(2, 1)),
              confidence_metrics |->
                [average_confidence |-> avg_confidence,
                 spatial_confidence |-> spatial_confidence]]

(***************************************************************************)
(* _infer_field_type: the type of a field, from its name.                  *)
(***************************************************************************)
UpperChars == <<"A", "B", "C", "D", "E", "F", "G", "H", "I", "J", "K", "L", "M", "N", "O", "P", "Q", "R", "S", "T", "U", "V", "W", "X", "Y", "Z">>
LowerChars == <<"a", "b", "c", "d", "e", "f", "g", "h", "i", "j", "k", "l", "m", "n", "o", "p", "q", "r", "s", "t", "u", "v", "w", "x", "y", "z">>

\* s.lower(), character by character
lower(s) ==
    [i \in 1..Len(s) |->
        IF \E j \in 1..26 : UpperChars[j] = s[i]
        THEN LowerChars[CHOOSE j \in 1..26 : UpperChars[j] = s[i]]
        ELSE s[i]]

\* any(term in lower_name for term in terms)
any_term_in(lower_name, terms) == \E term \in terms : contains(lower_name, term)

NumericTerms == {<<"i", "d">>, <<"n", "u", "m", "b", "e", "r">>, <<"n", "u", "m">>, <<"c", "o", "d", "e">>}
PhoneTerms   == {<<"p", "h", "o", "n", "e">>, <<"t", "e", "l">>, <<"m", "o", "b", "i", "l", "e">>, <<"l", "a", "n", "d", "l", "i", "n", "e">>}
DateTerms    == {<<"d", "a", "t", "e">>, <<"d", "a", "y">>, <<"m", "o", "n", "t", "h">>, <<"y", "e", "a", "r">>}
TextTerms    == {<<"n", "a", "m", "e">>, <<"f", "i", "r", "s", "t">>, <<"l", "a", "s", "t">>, <<"f", "a", "m", "i", "l", "y">>}
AddressTerms == {<<"a", "d", "d", "r", "e", "s", "s">>, <<"s", "t", "r", "e", "e", "t">>, <<"c", "i", "t", "y">>}

_infer_field_type_phone_first(field_name) ==
    LET lower_name == lower(field_name)
    IN  IF any_term_in(lower_name, PhoneTerms) THEN "phone"
        ELSE IF any_term_in(lower_name, NumericTerms) THEN "numeric"
        ELSE IF any_term_in(lower_name, DateTerms) THEN "date"
        ELSE IF any_term_in(lower_name, TextTerms) THEN "text"
        ELSE IF any_term_in(lower_name, AddressTerms) THEN "address"
        ELSE "unknown"

_infer_field_type(field_name) ==
    LET lower_name == lower(field_name)
    IN  IF any_term_in(lower_name, NumericTerms) THEN "numeric"
        ELSE IF any_term_in(lower_name, PhoneTerms) THEN "phone"
        ELSE IF any_term_in(lower_name, DateTerms) THEN "date"
        ELSE IF any_term_in(lower_name, TextTerms) THEN "text"
        ELSE IF any_term_in(lower_name, AddressTerms) THEN "address"
        ELSE "unknown"

(***************************************************************************)
(* validate_spatial_position: the position of a field on the page.         *)
(***************************************************************************)
\* ExtractionValidator.__init__: the zone each field is expected in, as
\* fractions of the page
expected_zones ==
    (S_lastName :> [y_range |-> <<Ratio(2, 10), Ratio(3, 10)>>,
                    x_range |-> <<Ratio(6, 10), Ratio(8, 10)>>])
    @@ (S_firstName :> [y_range |-> <<Ratio(2, 10), Ratio(3, 10)>>,
                        x_range |-> <<Ratio(4, 10), Ratio(6, 10)>>])
    @@ (S_idNumber :> [y_range |-> <<Ratio(2, 10), Ratio(3, 10)>>,
                       x_range |-> <<Ratio(2, 10), Ratio(4, 10)>>])

in_range_exclusive(range, v) == ~RatLeq(v, range[1]) /\ ~RatLeq(range[2], v)

\* lo <= v <= hi
in_range(range, v) == RatLeq(range[1], v) /\ RatLeq(v, range[2])

\* validate_spatial_position(field, position, page_dims): the score, or the
\* exception of a position without the key or of a page dimension of 0
validate_spatial_position(field, position, page_dims) ==
    IF field \notin DOMAIN expected_zones THEN [raised |-> "", value |-> One]
    ELSE IF "x" \notin DOMAIN position \/ "width" \notin DOMAIN page_dims
    THEN [raised |-> "KeyError"]
    ELSE IF page_dims.width = 0 THEN [raised |-> "ZeroDivisionError"]
    ELSE IF "y" \notin DOMAIN position \/ "height" \notin DOMAIN page_dims
    THEN [raised |-> "KeyError"]
    ELSE IF page_dims.height = 0 THEN [raised |-> "ZeroDivisionError"]
    ELSE LET expected == expected_zones[field]
             x_norm   == Ratio(position.x, page_dims.width)
             y_norm   == Ratio(position.y, page_dims.height)
             x_valid  == in_range(expected.x_range, x_norm)
             y_valid  == in_range(expected.y_range, y_norm)
         IN  IF x_valid /\ y_valid THEN [raised |-> "", value |-> One]
             ELSE IF x_valid \/ y_valid THEN [raised |-> "", value |-> Ratio(1, 2)]
             ELSE [raised |-> "", value |-> Zero]

(***************************************************************************)
(* DocumentIntelligenceExtractor._extract_bounding_box (ocr.py).  A polygon *)
(* is None or a list [elements |-> ...]; an element is a point object      *)
(* [point |-> its attributes], a number [num |-> n], a list or tuple       *)
(* [list |-> its items], None or a string.  A coordinate is a number       *)
(* [num |-> n] or None.                                                    *)
(***************************************************************************)
None == [none |-> TRUE]

IsNone(v)  == "none" \in DOMAIN v
IsNum(v)   == "num" \in DOMAIN v
IsPoint(v) == "point" \in DOMAIN v
IsSeq(v)   == "list" \in DOMAIN v

\* the box returned when the polygon cannot be used
DefaultBox == [x |-> 0, y |-> 0, width |-> 100, height |-> 20]

\* the first coordinate taken for the smallest
min_of_first(values) == values[1]

\* min(values) and max(values) of a non-empty list of numbers
min_of(values) == CHOOSE v \in {values[i] : i \in 1..Len(values)} :
                      \A i \in 1..Len(values) : v <= values[i]
max_of(values) == CHOOSE v \in {values[i] : i \in 1..Len(values)} :
                      \A i \in 1..Len(values) : v >= values[i]

\* the last four statements of the try block: min and max of the coordinates,
\* then the differences; a coordinate that is no number makes min, max or the
\* subtraction raise TypeError
box_of(x_coordinates, y_coordinates) ==
    IF \/ \E i \in 1..Len(x_coordinates) : ~IsNum(x_coordinates[i])
       \/ \E j \in 1..Len(y_coordinates) : ~IsNum(y_coordinates[j])
    THEN [raised |-> "TypeError"]
    ELSE LET xs == [i \in 1..Len(x_coordinates) |-> x_coordinates[i].num]
             ys == [i \in 1..Len(y_coordinates) |-> y_coordinates[i].num]
         IN  [raised |-> "",
              box |-> [x |-> min_of(xs), y |-> min_of(ys),
                       width |-> max_of(xs) - min_of(xs),
                       height |-> max_of(ys) - min_of(ys)]]

\* hasattr(p, 'x') and hasattr(p, 'y')
has_x_and_y(p) == IsPoint(p) /\ {"x", "y"} \subseteq DOMAIN p.point

\* the body of the try block: the box, or the exception raised on the way
try_extract_bounding_box(polygon_arg) ==
    IF IsNone(polygon_arg) THEN [raised |-> "", box |-> DefaultBox]
    ELSE LET polygon == polygon_arg.elements
         IN  IF polygon = <<>> THEN [raised |-> "", box |-> DefaultBox]
             ELSE IF has_x_and_y(polygon[1])
             THEN IF \E i \in 1..Len(polygon) : ~has_x_and_y(polygon[i])
                  THEN [raised |-> "AttributeError"]
                  ELSE box_of([i \in 1..Len(polygon) |-> polygon[i].point.x],
                              [i \in 1..Len(polygon) |-> polygon[i].point.y])
             ELSE IF IsNum(polygon[1])
             THEN IF Len(polygon) % 2 = 0
                  THEN box_of([i \in 1..(Len(polygon) \div 2) |-> polygon[2 * i - 1]],
                              [i \in 1..(Len(polygon) \div 2) |-> polygon[2 * i]])
                  ELSE [raised |-> "", box |-> DefaultBox]
             ELSE IF IsSeq(polygon[1]) /\ Len(polygon[1].list) = 2
             THEN IF \E i \in 1..Len(polygon) : ~IsSeq(polygon[i])
                  THEN [raised |-> "TypeError"]
                  ELSE IF \E i \in 1..Len(polygon) : Len(polygon[i].list) < 2
                  THEN [raised |-> "IndexError"]
                  ELSE box_of([i \in 1..Len(polygon) |-> polygon[i].list[1]],
                              [i \in 1..Len(polygon) |-> polygon[i].list[2]])
             ELSE [raised |-> "", box |-> DefaultBox]

_extract_bounding_box_unguarded(polygon) ==
    LET tried == try_extract_bounding_box(polygon)
    IN  IF tried.raised # "" THEN tried ELSE tried.box

\* _extract_bounding_box(polygon): except Exception returns the default box
_extract_bounding_box(polygon) ==
    LET tried == try_extract_bounding_box(polygon)
    IN  IF tried.raised # "" THEN DefaultBox ELSE tried.box

(***************************************************************************)
(* OpenAIExtractor.extract_structured_data (openai_extractor.py).  A JSON   *)
(* value is a string [str |-> s], null (None), a number [num |-> n] or an   *)
(* object [dict |-> its entries].                                           *)
(***************************************************************************)
\* OpenAIExtractor.__init__: the structure every extraction is given
expected_schema ==
    <<
      [k |-> <<"l", "a", "s", "t", "N", "a", "m", "e">>, v |-> [str |-> <<>>]],
      [k |-> <<"f", "i", "r", "s", "t", "N", "a", "m", "e">>, v |-> [str |-> <<>>]],
      [k |-> <<"i", "d", "N", "u", "m", "b", "e", "r">>, v |-> [str |-> <<>>]],
      [k |-> <<"g", "e", "n", "d", "e", "r">>, v |-> [str |-> <<>>]],
      [k |-> <<"d", "a", "t", "e", "O", "f", "B", "i", "r", "t", "h">>, v |-> [dict |-> <<
            [k |-> <<"d", "a", "y">>, v |-> [str |-> <<>>]],
            [k |-> <<"m", "o", "n", "t", "h">>, v |-> [str |-> <<>>]],
            [k |-> <<"y", "e", "a", "r">>, v |-> [str |-> <<>>]]>>]],
      [k |-> <<"a", "d", "d", "r", "e", "s", "s">>, v |-> [dict |-> <<
            [k |-> <<"s", "t", "r", "e", "e", "t">>, v |-> [str |-> <<>>]],
            [k |-> <<"h", "o", "u", "s", "e", "N", "u", "m", "b", "e", "r">>, v |-> [str |-> <<>>]],
            [k |-> <<"e", "n", "t", "r", "a", "n", "c", "e">>, v |-> [str |-> <<>>]],
            [k |-> <<"a", "p", "a", "r", "t", "m", "e", "n", "t">>, v |-> [str |-> <<>>]],
            [k |-> <<"c", "i", "t", "y">>, v |-> [str |-> <<>>]],
            [k |-> <<"p", "o", "s", "t", "a", "l", "C", "o", "d", "e">>, v |-> [str |-> <<>>]],
            [k |-> <<"p", "o", "B", "o", "x">>, v |-> [str |-> <<>>]]>>]],
      [k |-> <<"l", "a", "n", "d", "l", "i", "n", "e", "P", "h", "o", "n", "e">>, v |-> [str |-> <<>>]],
      [k |-> <<"m", "o", "b", "i", "l", "e", "P", "h", "o", "n", "e">>, v |-> [str |-> <<>>]],
      [k |-> <<"j", "o", "b", "T", "y", "p", "e">>, v |-> [str |-> <<>>]],
      [k |-> <<"d", "a", "t", "e", "O", "f", "I", "n", "j", "u", "r", "y">>, v |-> [dict |-> <<
            [k |-> <<"d", "a", "y">>, v |-> [str |-> <<>>]],
            [k |-> <<"m", "o", "n", "t", "h">>, v |-> [str |-> <<>>]],
            [k |-> <<"y", "e", "a", "r">>, v |-> [str |-> <<>>]]>>]],
      [k |-> <<"t", "i", "m", "e", "O", "f", "I", "n", "j", "u", "r", "y">>, v |-> [str |-> <<>>]],
      [k |-> <<"a", "c", "c", "i", "d", "e", "n", "t", "L", "o", "c", "a", "t", "i", "o", "n">>, v |-> [str |-> <<>>]],
      [k |-> <<"a", "c", "c", "i", "d", "e", "n", "t", "A", "d", "d", "r", "e", "s", "s">>, v |-> [str |-> <<>>]],
      [k |-> <<"a", "c", "c", "i", "d", "e", "n", "t", "D", "e", "s", "c", "r", "i", "p", "t", "i", "o", "n">>, v |-> [str |-> <<>>]],
      [k |-> <<"i", "n", "j", "u", "r", "e", "d", "B", "o", "d", "y", "P", "a", "r", "t">>, v |-> [str |-> <<>>]],
      [k |-> <<"s", "i", "g", "n", "a", "t", "u", "r", "e">>, v |-> [str |-> <<>>]],
      [k |-> <<"f", "o", "r", "m", "F", "i", "l", "l", "i", "n", "g", "D", "a", "t", "e">>, v |-> [dict |-> <<
            [k |-> <<"d", "a", "y">>, v |-> [str |-> <<>>]],
            [k |-> <<"m", "o", "n", "t", "h">>, v |-> [str |-> <<>>]],
            [k |-> <<"y", "e", "a", "r">>, v |-> [str |-> <<>>]]>>]],
      [k |-> <<"f", "o", "r", "m", "R", "e", "c", "e", "i", "p", "t", "D", "a", "t", "e", "A", "t", "C", "l", "i", "n", "i", "c">>, v |-> [dict |-> <<
            [k |-> <<"d", "a", "y">>, v |-> [str |-> <<>>]],
            [k |-> <<"m", "o", "n", "t", "h">>, v |-> [str |-> <<>>]],
            [k |-> <<"y", "e", "a", "r">>, v |-> [str |-> <<>>]]>>]],
      [k |-> <<"m", "e", "d", "i", "c", "a", "l", "I", "n", "s", "t", "i", "t", "u", "t", "i", "o", "n", "F", "i", "e", "l", "d", "s">>, v |-> [dict |-> <<
            [k |-> <<"h", "e", "a", "l", "t", "h", "F", "u", "n", "d", "M", "e", "m", "b", "e", "r">>, v |-> [str |-> <<>>]],
            [k |-> <<"n", "a", "t", "u", "r", "e", "O", "f", "A", "c", "c", "i", "d", "e", "n", "t">>, v |-> [str |-> <<>>]],
            [k |-> <<"m", "e", "d", "i", "c", "a", "l", "D", "i", "a", "g", "n", "o", "s", "e", "s">>, v |-> [str |-> <<>>]]>>]]
    >>

S_confidences == <<"c", "o", "n", "f", "i", "d", "e", "n", "c", "e", "s">>
S__confidence == <<"_", "c", "o", "n", "f", "i", "d", "e", "n", "c", "e">>

\* key in d, d[key] and d.get(key, "") on a dict
has_key(d, key) == \E i \in 1..Len(d) : d[i].k = key
value_at(d, key) == d[CHOOSE i \in 1..Len(d) : d[i].k = key].v
get_or_empty(d, key) == IF has_key(d, key) THEN value_at(d, key) ELSE [str |-> <<>>]

\* del d[key]
dict_del(d, key) == LET Other(entry) == entry.k # key IN SelectSeq(d, Other)

\* {k: "" for k, v in schema[key].items()}
empty_structure(section) ==
    [i \in 1..Len(section) |-> [k |-> section[i].k, v |-> [str |-> <<>>]]]

\* source.get(key, ""): the value stored for a simple field of the schema
copy_simple_field(source, key) == get_or_empty(source, key)

\* copy_expected_fields(source, schema, target): the target it fills
RECURSIVE copy_expected_fields(_, _)
copy_expected_fields(source, schema) ==
    IF schema = <<>> THEN <<>>
    ELSE LET key   == Head(schema).k
             value == Head(schema).v
             rest  == copy_expected_fields(source, Tail(schema))
         IN  IF key = S_confidences \/ endswith(key, S__confidence) THEN rest
             ELSE IF IsDict(value)
             THEN IF has_key(source, key) /\ IsDict(value_at(source, key))
                  THEN <<[k |-> key,
                          v |-> [dict |-> copy_expected_fields(
                                              value_at(source, key).dict, value.dict)]]>>
                       \o rest
                  ELSE <<[k |-> key, v |-> [dict |-> empty_structure(value.dict)]]>>
                       \o rest
             ELSE <<[k |-> key, v |-> copy_simple_field(source, key)]>> \o rest

\* extract_structured_data, from the JSON object the model answered: the
\* result it returns
extract_structured_data(raw_result) ==
    dict_del(copy_expected_fields(dict_del(raw_result, S_confidences),
                                  expected_schema),
             S_confidences)

\* the extraction file written before the result is returned
extraction_data(result) ==
    [original_extraction |-> result, final_extraction |-> result,
     has_been_corrected |-> FALSE]

(***************************************************************************)
(* The OCR-consistency check and the date-coherence check.  What they log  *)
(* at warning and error level, and the similar tokens they report, is kept *)
(* as a list of findings; what they store is the attribute injury_date.    *)
(* A date is <<year, month, day>>.                                         *)
(***************************************************************************)
Finding(kind, field, value) ==
    [kind |-> kind, field |-> field, value |-> value, match |-> <<>>, score |-> Zero]

\* sep.join(parts)
RECURSIVE join(_, _)
join(sep, parts) ==
    IF parts = <<>> THEN <<>>
    ELSE IF Len(parts) = 1 THEN parts[1]
    ELSE parts[1] \o sep \o join(sep, Tail(parts))

\* s.split(): the maximal runs of characters that are not whitespace
RECURSIVE split(_)
split(s) ==
    IF s = <<>> THEN <<>>
    ELSE IF s[1] \in SpaceChars THEN split(Tail(s))
    ELSE LET spaces == {i \in 1..Len(s) : s[i] \in SpaceChars}
             end    == IF spaces = {} THEN Len(s) + 1
                       ELSE CHOOSE i \in spaces : \A j \in spaces : i <= j
         IN  <<SubSeq(s, 1, end - 1)>> \o split(SubSeq(s, end, Len(s)))

\* s.replace(c, '') for every character c of chars
remove_chars(s, chars) == LET Kept(c) == c \notin chars IN SelectSeq(s, Kept)

\* sum(c.isdigit() for c in value)
count_digits(value) == Cardinality({i \in 1..Len(value) : IsDigit(value[i])})

\* str(value): a string as it is, a dict of strings as Python prints it
str_of(value) ==
    IF IsDict(value)
    THEN <<"{">>
         \o join(<<",", " ">>,
                 [i \in 1..Len(value.dict) |->
                     <<"'">> \o value.dict[i].k \o <<"'", ":", " ", "'">>
                     \o value.dict[i].v.str \o <<"'">>])
         \o <<"}">>
    ELSE value.str

\* span.get("text", "") of every span of the OCR data
span_texts(ocr_data) ==
    LET spans == list_or_empty(ocr_data, "text")
    IN  [i \in 1..Len(spans) |->
            IF "text" \in DOMAIN spans[i] THEN spans[i].text ELSE <<>>]

\* the same text without .lower(): a search that tells capitals from small
\* letters
ocr_text_of_case_sensitive(ocr_data) == join(<<" ">>, span_texts(ocr_data))

\* " ".join([span.get("text", "").lower() for span in ocr_data.get("text", [])])
ocr_text_of(ocr_data) ==
    LET texts == span_texts(ocr_data)
    IN  join(<<" ">>, [i \in 1..Len(texts) |-> lower(texts[i])])

\* ' '.join([span.get("text", "") ...]).lower().split()
ocr_tokens_of(ocr_data) == split(lower(join(<<" ">>, span_texts(ocr_data))))

\* _get_expected_format(field_type)
F_numeric == <<"s", "e", "q", "u", "e", "n", "c", "e", " ", "o", "f", " ", "d", "i", "g", "i", "t", "s">>
F_phone   == <<"p", "h", "o", "n", "e", " ", "n", "u", "m", "b", "e", "r", " ", "(", "d", "i", "g", "i", "t", "s", " ", "o", "n", "l", "y", ")">>
F_date    == <<"d", "a", "t", "e", " ", "(", "d", "a", "y", "/", "m", "o", "n", "t", "h", "/", "y", "e", "a", "r", ")">>
F_text    == <<"t", "e", "x", "t", " ", "(", "n", "o", "t", " ", "o", "n", "l", "y", " ", "d", "i", "g", "i", "t", "s", ")">>
F_address == <<"a", "d", "d", "r", "e", "s", "s", " ", "(", "s", "t", "r", "e", "e", "t", ",", " ", "n", "u", "m", "b", "e", "r", ",", " ", "c", "i", "t", "y", ",", " ", "e", "t", "c", ".", ")">>

_get_expected_format(field_type) ==
    IF field_type = "numeric" THEN F_numeric
    ELSE IF field_type = "phone" THEN F_phone
    ELSE IF field_type = "date" THEN F_date
    ELSE IF field_type = "text" THEN F_text
    ELSE IF field_type = "address" THEN F_address
    ELSE <<>>

\* _matches_expected_format(value, expected_format), for a non-empty value
_matches_expected_format(value, expected_format) ==
    IF contains(expected_format, <<"d", "i", "g", "i", "t", "s", " ", "o", "n", "l", "y">>)
    THEN 10 * count_digits(value) > 7 * Len(value)
    ELSE IF contains(expected_format, <<"s", "e", "q", "u", "e", "n", "c", "e", " ", "o", "f", " ", "d", "i", "g", "i", "t", "s">>)
    THEN 10 * count_digits(value) > 9 * Len(value)
    ELSE IF contains(expected_format, <<"n", "o", "t", " ", "o", "n", "l", "y", " ", "d", "i", "g", "i", "t", "s">>)
    THEN 2 * count_digits(value) < Len(value)
    ELSE TRUE

\* sum(1 for c in token if c in ocr_token) / max(len(token), len(ocr_token))
similarity(token, ocr_token) ==
    Ratio(Cardinality({i \in 1..Len(token) :
                          \E j \in 1..Len(ocr_token) : ocr_token[j] = token[i]}),
          Max(Len(token), Len(ocr_token)))

\* the same loop with score >= match_score: the latest of equal scores wins
RECURSIVE closest_match_latest_wins(_, _, _)
closest_match_latest_wins(token, ocr_tokens, best) ==
    IF ocr_tokens = <<>> THEN best
    ELSE LET ocr_token == Head(ocr_tokens)
             score     == similarity(token, ocr_token)
         IN  IF Len(ocr_token) > 3
                /\ ~RatLeq(score, Ratio(6, 10))
                /\ RatLeq(best.score, score)
             THEN closest_match_latest_wins(token, Tail(ocr_tokens),
                                [match |-> ocr_token, score |-> score])
             ELSE closest_match_latest_wins(token, Tail(ocr_tokens), best)

\* the loop over ocr_tokens: the closest match so far and its score
RECURSIVE closest_match(_, _, _)
closest_match(token, ocr_tokens, best) ==
    IF ocr_tokens = <<>> THEN best
    ELSE LET ocr_token == Head(ocr_tokens)
             score     == similarity(token, ocr_token)
         IN  IF Len(ocr_token) > 3
                /\ ~RatLeq(score, Ratio(6, 10))
                /\ ~RatLeq(score, best.score)
             THEN closest_match(token, Tail(ocr_tokens),
                                [match |-> ocr_token, score |-> score])
             ELSE closest_match(token, Tail(ocr_tokens), best)

\* what the loop over value_tokens logs for one token
token_findings(field_name, token, ocr_data) ==
    IF Len(token) <= 3 \/ contains(ocr_text_of(ocr_data), token) THEN <<>>
    ELSE LET best == closest_match(token, ocr_tokens_of(ocr_data),
                                   [match |-> <<>>, score |-> Zero])
         IN  IF best.match # <<>>
             THEN <<[kind |-> "similar token", field |-> field_name, value |-> token,
                     match |-> best.match, score |-> best.score]>>
             ELSE <<Finding("token not found", field_name, token)>>

RECURSIVE tokens_findings(_, _, _)
tokens_findings(field_name, value_tokens, ocr_data) ==
    IF value_tokens = <<>> THEN <<>>
    ELSE token_findings(field_name, Head(value_tokens), ocr_data)
         \o tokens_findings(field_name, Tail(value_tokens), ocr_data)

\* the part of _check_consistency_with_ocr that handles simple values
scalar_findings(field_name, value_str, ocr_data) ==
    LET field_type  == _infer_field_type(field_name)
        ocr_text    == ocr_text_of(ocr_data)
        value_tokens == split(value_str)
        Found(token)    == Len(token) > 3 /\ contains(ocr_text, token)
        NotFound(token) == Len(token) > 3 /\ ~contains(ocr_text, token)
        tokens_found     == SelectSeq(value_tokens, Found)
        tokens_not_found == SelectSeq(value_tokens, NotFound)
        expected_format  == _get_expected_format(field_type)
    IN  (IF field_type \in {"numeric", "phone"}
            /\ ~isdigit(remove_chars(value_str, {"-", " "}))
         THEN <<Finding("TYPE SUBSTITUTION", field_name, value_str)>> ELSE <<>>)
        \o (IF field_type = "text" /\ isdigit(value_str)
            THEN <<Finding("TYPE SUBSTITUTION", field_name, value_str)>> ELSE <<>>)
        \o tokens_findings(field_name, value_tokens, ocr_data)
        \o (IF tokens_found = <<>> /\ tokens_not_found # <<>>
            THEN <<Finding("POSSIBLE INVENTION", field_name, value_str),
                   Finding("SUSPICIOUS DATA", field_name, value_str)>>
                 \o (IF expected_format # <<>>
                        /\ ~_matches_expected_format(value_str, expected_format)
                     THEN <<Finding("Incorrect format", field_name, value_str)>>
                     ELSE <<>>)
            ELSE <<>>)

S_day   == <<"d", "a", "y">>
S_month == <<"m", "o", "n", "t", "h">>
S_year  == <<"y", "e", "a", "r">>

\* a < b for two dates
date_before(a, b) ==
    \/ a[1] < b[1]
    \/ a[1] = b[1] /\ a[2] < b[2]
    \/ a[1] = b[1] /\ a[2] = b[2] /\ a[3] < b[3]

\* d/m/y, the date as the findings show it
date_text(date_dict) ==
    value_at(date_dict, S_day).str \o <<"/">> \o value_at(date_dict, S_month).str
    \o <<"/">> \o value_at(date_dict, S_year).str

\* _check_date_coherence(field_name, date_dict), with the injury date the
\* validator holds and the date of the clock: what it logs and the injury
\* date it leaves
_check_date_coherence(field_name, date_dict, stored, now) ==
    IF ~(\A k \in {S_day, S_month, S_year} : has_key(date_dict, k))
    THEN [findings |-> <<>>, injury_date |-> stored]
    ELSE IF ~(/\ isdigit(value_at(date_dict, S_day).str)
              /\ isdigit(value_at(date_dict, S_month).str)
              /\ isdigit(value_at(date_dict, S_year).str))
    THEN [findings |-> <<Finding("non-digit date components", field_name,
                                 date_text(date_dict))>>,
          injury_date |-> stored]
    ELSE LET day   == DigitsValue(value_at(date_dict, S_day).str)
             month == DigitsValue(value_at(date_dict, S_month).str)
             year  == DigitsValue(value_at(date_dict, S_year).str)
             shown == date_text(date_dict)
             lower_name == lower(field_name)
             ranges ==
                (IF ~(1 <= day /\ day <= 31)
                 THEN <<Finding("Invalid day value", field_name, shown)>> ELSE <<>>)
                \o (IF ~(1 <= month /\ month <= 12)
                    THEN <<Finding("Invalid month value", field_name, shown)>>
                    ELSE <<>>)
                \o (IF year < 1900 \/ year > now[1]
                    THEN <<Finding("Unusual year value", field_name, shown)>>
                    ELSE <<>>)
             date_obj == <<year, month, day>>
             injury   == IF contains(lower_name, <<"i", "n", "j", "u", "r", "y">>) THEN date_obj ELSE stored
         IN  IF datetime_error(year, month, day) # ""
             THEN [findings |-> ranges \o <<Finding("Invalid date", field_name, shown)>>,
                   injury_date |-> stored]
             ELSE [findings |->
                      ranges
                      \o (IF date_before(now, date_obj)
                          THEN IF \/ contains(lower_name, <<"i", "n", "j", "u", "r", "y">>)
                                  \/ contains(lower_name, <<"r", "e", "c", "e", "i", "p", "t">>)
                                  \/ contains(lower_name, <<"f", "i", "l", "l", "i", "n", "g">>)
                               THEN <<Finding("LOGIC ERROR: future date", field_name,
                                              shown)>>
                               ELSE <<Finding("Future date", field_name, shown)>>
                          ELSE <<>>)
                      \o (IF /\ injury # <<>>
                             /\ contains(lower_name, <<"f", "i", "l", "l", "i", "n", "g">>)
                             /\ date_before(date_obj, injury)
                          THEN <<Finding("LOGIC ERROR: filling date before injury date",
                                         field_name, shown)>>
                          ELSE <<>>),
                   injury_date |-> injury]

\* found_ratio <= 0.5: exactly half found counts as too few
at_most_half(components_found, components_total) ==
    2 * components_found <= components_total

\* found_ratio < 0.5, with found_ratio = components_found / components_total
fewer_than_half(components_found, components_total) ==
    2 * components_found < components_total

\* the part of _check_consistency_with_ocr that handles dict values
dict_findings(field_name, value, ocr_data, stored, now) ==
    LET ocr_text    == ocr_text_of(ocr_data)
        Populated(component) == is_filled(component.v.str)
        Absent(component) ==
            Populated(component) /\ ~contains(ocr_text, strip(lower(component.v.str)))
        populated   == SelectSeq(value, Populated)
        absent      == SelectSeq(value, Absent)
        components_total == Len(populated)
        components_found == Len(populated) - Len(absent)
        coherence   ==
            IF endswith(lower(field_name), <<"d", "a", "t", "e">>)
               /\ \A k \in {S_day, S_month, S_year} : has_key(value, k)
            THEN _check_date_coherence(field_name, value, stored, now)
            ELSE [findings |-> <<>>, injury_date |-> stored]
    IN  [findings |->
            [i \in 1..Len(absent) |->
                Finding("component not found", field_name \o <<".">> \o absent[i].k,
                        strip(lower(absent[i].v.str)))]
            \o coherence.findings
            \o (IF components_total > 0
                   /\ fewer_than_half(components_found, components_total)
                THEN <<Finding("Possible inconsistency", field_name, <<>>),
                       Finding("SUSPECT DATA", field_name, <<>>)>>
                ELSE <<>>),
         injury_date |-> coherence.injury_date]

\* _check_consistency_with_ocr(field_name, value, ocr_data), with the injury
\* date the validator holds and the date of the clock: what it logs and the
\* injury date it leaves
_check_consistency_with_ocr(field_name, value, ocr_data, stored, now) ==
    LET value_str == strip(lower(str_of(value)))
    IN  IF value_str = <<>> \/ Len(value_str) <= 3
        THEN [findings |-> <<>>, injury_date |-> stored]
        ELSE IF IsDict(value)
        THEN dict_findings(field_name, value.dict, ocr_data, stored, now)
        ELSE [findings |-> scalar_findings(field_name, value_str, ocr_data),
              injury_date |-> stored]

\* a pass that begins by forgetting the injury date of earlier passes
RECURSIVE consistency_pass_clearing_injury_date(_, _, _, _)
consistency_pass_clearing_injury_date(checked, ocr_data, stored, now) ==
    IF checked = <<>> THEN [findings |-> <<>>, injury_date |-> <<>>]
    ELSE LET first == _check_consistency_with_ocr(split_last(Head(checked).k),
                                                  [str |-> Head(checked).v],
                                                  ocr_data, <<>>, now)
             rest  == consistency_pass_clearing_injury_date(Tail(checked), ocr_data,
                                                            <<>>, now)
         IN  [findings |-> first.findings \o rest.findings,
              injury_date |-> rest.injury_date]

\* the calls of _check_consistency_with_ocr that the format loop of
\* validate_extracted_data makes, one per leaf it checks, in order
RECURSIVE consistency_pass(_, _, _, _)
consistency_pass(checked, ocr_data, stored, now) ==
    IF checked = <<>> THEN [findings |-> <<>>, injury_date |-> stored]
    ELSE LET first == _check_consistency_with_ocr(split_last(Head(checked).k),
                                                  [str |-> Head(checked).v],
                                                  ocr_data, stored, now)
             rest  == consistency_pass(Tail(checked), ocr_data, first.injury_date, now)
         IN  [findings |-> first.findings \o rest.findings,
              injury_date |-> rest.injury_date]

(***************************************************************************)
(* StatisticsTracker (archive/utils/statistics_tracker.py).  self.data is  *)
(* [documents, field_stats]: documents is the list of document entries     *)
(* [id, timestamp, field_results], field_stats the dict of the counters    *)
(* [total, empty, valid, invalid, corrected] of each field.  A leaf value  *)
(* is a string [str |-> s] or None.                                        *)
(***************************************************************************)
S_address        == <<"a", "d", "d", "r", "e", "s", "s">>
S_dateOfBirth    == <<"d", "a", "t", "e", "O", "f", "B", "i", "r", "t", "h">>

\* StatisticsTracker.__init__: the expected format of each checked field; a
\* pattern ^\d{lo,hi}$ is kept as its repeat counts, the three date patterns
\* by their name
expected_formats ==
    (S_idNumber :> [shape |-> "digits", lo |-> 9, hi |-> 9])
    @@ (S_mobilePhone :> [shape |-> "digits", lo |-> 10, hi |-> 10])
    @@ (S_landlinePhone :> [shape |-> "digits", lo |-> 9, hi |-> 10])
    @@ ((S_dateOfBirth \o <<".">> \o S_day) :> [shape |-> "day"])
    @@ ((S_dateOfBirth \o <<".">> \o S_month) :> [shape |-> "month"])
    @@ ((S_dateOfBirth \o <<".">> \o S_year) :> [shape |-> "year"])
    @@ ((S_address \o <<".">> \o S_postalCode) :> [shape |-> "digits", lo |-> 5, hi |-> 7])

\* the prefixes of value that the alternatives of a date pattern can consume:
\* day (0?[1-9]|[12][0-9]|3[01]), month (0?[1-9]|1[0-2]), year (19|20)\d{2}
alternative_consumes(shape, value, k) ==
    LET c(i) == value[i]
        nonzero(i) == IsDigit(c(i)) /\ c(i) # "0"
    IN  /\ k <= Len(value)
        /\ \/ shape \in {"day", "month"} /\ k = 1 /\ nonzero(1)
           \/ shape \in {"day", "month"} /\ k = 2 /\ c(1) = "0" /\ nonzero(2)
           \/ shape = "day" /\ k = 2 /\ c(1) \in {"1", "2"} /\ IsDigit(c(2))
           \/ shape = "day" /\ k = 2 /\ c(1) = "3" /\ c(2) \in {"0", "1"}
           \/ shape = "month" /\ k = 2 /\ c(1) = "1" /\ c(2) \in {"0", "1", "2"}
           \/ shape = "year" /\ k = 4 /\ c(1) \in {"1", "2"}
              /\ (c(1) = "1" => c(2) = "9") /\ (c(1) = "2" => c(2) = "0")
              /\ IsDigit(c(3)) /\ IsDigit(c(4))

\* bool(re.match(pattern, value)) for the patterns of expected_formats
re_match_expected(pattern, value) ==
    IF pattern.shape = "digits" THEN re_match(pattern, value)
    ELSE \E k \in 1..4 : alternative_consumes(pattern.shape, value, k) /\ DollarAt(value, k)

\* _check_format(field, value)
_check_format(field, value) ==
    IF IsNone(value) \/ value.str = <<>> THEN "empty"
    ELSE IF field \in DOMAIN expected_formats
         THEN (IF re_match_expected(expected_formats[field], value.str)
               THEN "valid" ELSE "invalid")
         ELSE "unverified"

\* items[key] = val on a dict of any values
item_set(items, key, val) ==
    IF \E i \in 1..Len(items) : items[i].k = key
    THEN [i \in 1..Len(items) |->
            IF items[i].k = key THEN [k |-> key, v |-> val] ELSE items[i]]
    ELSE Append(items, [k |-> key, v |-> val])

\* dict(items) for a list of (key, value) pairs: a later pair with the key of
\* an earlier one replaces its value
RECURSIVE dict_of_pairs(_)
dict_of_pairs(items) ==
    IF items = <<>> THEN <<>>
    ELSE item_set(dict_of_pairs(SubSeq(items, 1, Len(items) - 1)),
                  items[Len(items)].k, items[Len(items)].v)

\* what items.extend(flattened) adds, flattened being a dict: its keys, which
\* are strings.  dict(items) takes a string of two characters for the pair
\* of its characters and raises ValueError on a string of any other length.
keys_as_pairs(flattened) ==
    [i \in 1..Len(flattened) |->
        IF Len(flattened[i].k) = 2
        THEN [k |-> <<flattened[i].k[1]>>, v |-> [str |-> <<flattened[i].k[2]>>]]
        ELSE [k |-> flattened[i].k, v |-> None]]

\* items[key] for a key that items holds
item_get(items, key) ==
    items[CHOOSE i \in 1..Len(items) : items[i].k = key].v

\* the list items of flatten_dict(d, parent_key) before dict(items), and
\* whether a nested call or a later dict(items) raises ValueError
RECURSIVE flatten_items(_, _)
flatten_items(d, parent_key) ==
    IF d = <<>> THEN [raised |-> FALSE, items |-> <<>>]
    ELSE LET n       == Len(d)
             k       == d[n].k
             v       == d[n].v
             new_key == IF parent_key # <<>> THEN parent_key \o <<".">> \o k ELSE k
             before  == flatten_items(SubSeq(d, 1, n - 1), parent_key)
             nested  == flatten_items(v.dict, new_key)
             inner   == dict_of_pairs(nested.items)
         IN  IF before.raised THEN before
             ELSE IF IsDict(v)
             THEN [raised |-> nested.raised
                              \/ \E i \in 1..Len(inner) : Len(inner[i].k) # 2,
                   items  |-> before.items \o keys_as_pairs(inner)]
             ELSE [raised |-> FALSE,
                   items  |-> Append(before.items, [k |-> new_key, v |-> v])]

\* flatten_dict(d, parent_key) of track_document: the leaves of d under
\* their names, and ValueError once a nested dict holds a leaf
flatten_dict(d, parent_key) ==
    LET flattened == flatten_items(d, parent_key)
    IN  [raised |-> flattened.raised,
         items  |-> IF flattened.raised THEN <<>> ELSE dict_of_pairs(flattened.items)]

\* the counters of a field, all zero; they are also the keys of a
\* field_stats_diff entry
zero_stats == [total |-> 0, empty |-> 0, valid |-> 0, invalid |-> 0, corrected |-> 0]

\* counters[key] += amount, for a key the counters hold
add_to(counters, key, amount) == [counters EXCEPT ![key] = @ + amount]

\* the index of the first document with this id, 0 when there is none
existing_doc_index(documents, doc_id) ==
    IF \E i \in 1..Len(documents) : documents[i].id = doc_id
    THEN CHOOSE i \in 1..Len(documents) :
            /\ documents[i].id = doc_id
            /\ \A j \in 1..(i - 1) : documents[j].id # doc_id
    ELSE 0

\* one turn of the loop over the fields of the original extraction; so_far
\* is [field_stats, field_results, raised].  Subtracting or adding a status
\* that field_stats_diff[field] has no key for raises KeyError, which leaves
\* the loop with the statistics of the earlier fields already applied.
track_field(so_far, field, orig_value, flat_final, existing_results) ==
    LET final_value   == IF has_key(flat_final, field)
                         THEN item_get(flat_final, field) ELSE orig_value
        format_status == _check_format(field, orig_value)
        was_corrected == orig_value # final_value
        field_result  == [original_value |-> orig_value, final_value |-> final_value,
                          format_status |-> format_status,
                          was_corrected |-> was_corrected]
        results       == item_set(so_far.field_results, field, field_result)
        had_old       == has_key(existing_results, field)
        old           == item_get(existing_results, field)
        subtracted    ==
            IF had_old
            THEN LET less == add_to(add_to(zero_stats, "total", 0 - 1),
                                    old.format_status, 0 - 1)
                 IN  IF old.was_corrected THEN add_to(less, "corrected", 0 - 1) ELSE less
            ELSE zero_stats
        added         ==
            LET more == add_to(add_to(subtracted, "total", 1), format_status, 1)
            IN  IF was_corrected THEN add_to(more, "corrected", 1) ELSE more
        stats         == IF has_key(so_far.field_stats, field)
                         THEN so_far.field_stats
                         ELSE item_set(so_far.field_stats, field, zero_stats)
        counters      == item_get(stats, field)
        applied       == [key \in DOMAIN zero_stats |-> counters[key] + added[key]]
    IN  IF so_far.raised THEN so_far
        ELSE IF had_old /\ old.format_status \notin DOMAIN zero_stats
        THEN [so_far EXCEPT !.field_results = results, !.raised = TRUE]
        ELSE IF format_status \notin DOMAIN zero_stats
        THEN [so_far EXCEPT !.field_results = results, !.raised = TRUE]
        ELSE [field_stats |-> item_set(stats, field, applied),
              field_results |-> results, raised |-> FALSE]

\* the loop over the first n fields of the flattened original extraction
RECURSIVE track_fields(_, _, _, _, _)
track_fields(field_stats, flat_original, n, flat_final, existing_results) ==
    IF n = 0 THEN [field_stats |-> field_stats, field_results |-> <<>>, raised |-> FALSE]
    ELSE track_field(track_fields(field_stats, flat_original, n - 1, flat_final,
                                  existing_results),
                     flat_original[n].k, flat_original[n].v, flat_final,
                     existing_results)

\* track_document(doc_id, original_extraction, final_extraction) at time now:
\* self.data as the call leaves it, and the exception it raised, if any
track_document(tracked, doc_id, original_extraction, final_extraction, now) ==
    LET flat_original == flatten_dict(original_extraction, <<>>)
        flat_final    == flatten_dict(final_extraction, <<>>)
        index         == existing_doc_index(tracked.documents, doc_id)
        existing_results == IF index > 0 THEN tracked.documents[index].field_results
                            ELSE <<>>
        looped        == track_fields(tracked.field_stats, flat_original.items,
                                      Len(flat_original.items), flat_final.items,
                                      existing_results)
        doc_entry     == [id |-> doc_id, timestamp |-> now,
                          field_results |-> looped.field_results]
        documents     == IF index > 0
                         THEN [tracked.documents EXCEPT ![index] = doc_entry]
                         ELSE Append(tracked.documents, doc_entry)
    IN  IF flat_original.raised \/ flat_final.raised
        THEN [data |-> tracked, raised |-> TRUE, error |-> "ValueError"]
        ELSE IF looped.raised
        THEN [data |-> [documents |-> tracked.documents,
                        field_stats |-> looped.field_stats],
              raised |-> TRUE, error |-> "KeyError"]
        ELSE [data |-> [documents |-> documents, field_stats |-> looped.field_stats],
              raised |-> FALSE, error |-> ""]

(***************************************************************************)
(* The calls of the model.                                                 *)
(***************************************************************************)
\* the first n characters of "1234567890" repeated
DigitRun(n) ==
    [i \in 1..n |-> <<"1", "2", "3", "4", "5", "6", "7", "8", "9", "0">>[((i - 1) % 10) + 1]]

\* values given to validate_format: a run of digits, alone or with other
\* characters before or after it
FormatValues ==
    {pre \o DigitRun(n) \o suf :
        pre \in {<<>>, <<" ">>, <<"a">>, <<"\n">>},
        n \in 0..MaxDigits,
        suf \in {<<>>, <<"\n">>, <<" ">>, <<"a">>, <<"\n", "\n">>, <<"a", "\n">>}}

\* field names given to validate_format: the registered ones, one differing
\* from a registered one by case only, and unregistered ones
FormatFields ==
    {S_idNumber, S_mobilePhone, S_landlinePhone, S_postalCode, S_lastName,
     <<"i", "d", "n", "u", "m", "b", "e", "r">>, <<"i", "d">>}

FormatCalls == [op : {"validate_format"}, field : FormatFields, value : FormatValues]

\* date components: decimal numbers in and out of every range, a zero-padded
\* one, padded and signed ones, and text that is no number
DateStrs ==
    {NatToStr(n) : n \in {0, 1, 2, 4, 12, 13, 29, 30, 31, 32, 1900, 2020, 2021, 9999, 10000}}
    \cup {<<>>, <<" ">>, <<"0", "2">>, <<" ", "7", " ">>, <<"-", "1">>, <<"a", "b">>}

DateDicts == UNION {[D -> DateStrs] : D \in SUBSET {"day", "month", "year"}}

DateCalls == [op : {"validate_date"}, date_dict : DateDicts]

\* values of the leaves of a structured extraction
V_Cohen == <<"C", "o", "h", "e", "n">>
V_David == <<"D", "a", "v", "i", "d">>
V_blank == <<" ">>


\* a leaf that is absent or holds one of the values: a dict of 0 or 1 entry
LeafChoices(name, values) ==
    {<<>>} \cup {<<[k |-> name, v |-> [str |-> val]]>> : val \in values}

\* a section that is absent or holds one of the dicts
SectionChoices(name, dicts) ==
    {<<>>} \cup {<<[k |-> name, v |-> [dict |-> d]]>> : d \in dicts}

AddressDicts == LeafChoices(S_postalCode, {<<>>, DigitRun(5), DigitRun(4)})

ConfidenceDicts ==
    {a \o b : a \in LeafChoices(S_firstName, {<<>>, V_David}),
              b \in LeafChoices(S_idNumber, {DigitRun(2), DigitRun(9)})}

\* structured extractions: the keys come in the order of the expected schema;
\* each leaf is absent, empty, blank, well formed or ill formed
Extractions ==
    {a \o b \o c \o d \o e :
        a \in LeafChoices(S_lastName, {<<>>, V_blank, V_Cohen}),
        b \in LeafChoices(S_firstName, {<<>>, V_David}),
        c \in LeafChoices(S_idNumber,
                {<<>>, DigitRun(9), DigitRun(8), DigitRun(9) \o <<"\n">>,
                 <<" ">> \o DigitRun(9)}),
        d \in SectionChoices(S_address, AddressDicts),
        e \in SectionChoices(S_confidences, ConfidenceDicts)}

\* a text span of the OCR result
Span(text, confidence, box) ==
    [text |-> text, confidence |-> confidence, bounding_box |-> box]

Box(x, y, width, height) == [x |-> x, y |-> y, width |-> width, height |-> height]

\* OCR results given with an extraction: without text and without average
\* confidence, and with text spans that hold or do not hold the values
OcrDatas ==
    {[text |-> <<>>],
     [text |-> <<Span(V_Cohen \o <<" ">> \o V_David, Ratio(9, 10), Box(0, 0, 2, 1)),
                 Span(DigitRun(9), Ratio(1, 2), Box(0, 2, 2, 1))>>,
      average_confidence |-> Ratio(7, 10)],
     [text |-> <<Span(<<"x", "y", "z">>, Ratio(1, 2), Box(0, 0, 2, 1))>>,
      average_confidence |-> Ratio(1, 2)]}

\* a date section with the three components
DateSection(day, month, year) ==
    <<[k |-> S_day, v |-> [str |-> day]], [k |-> S_month, v |-> [str |-> month]],
      [k |-> S_year, v |-> [str |-> year]]>>

\* extractions with an injury date and a form-filling date, the second
\* before, on or after the first
DatedExtractions ==
    {a \o b \o c :
        a \in LeafChoices(S_lastName, {V_Cohen}),
        b \in SectionChoices(S_dateOfInjury,
                {DateSection(NatToStr(10), NatToStr(5), NatToStr(2024))}),
        c \in SectionChoices(S_formFillingDate,
                {DateSection(NatToStr(d), NatToStr(5), NatToStr(2024)) :
                    d \in {1, 10, 20}})}

\* extractions with a key that holds a dot, or an empty key
KeyedExtractions ==
    {<<[k |-> S_address \o <<".">> \o S_postalCode, v |-> [str |-> DigitRun(5)]],
       [k |-> S_address,
        v |-> [dict |-> <<[k |-> S_postalCode, v |-> [str |-> DigitRun(4)]]>>]]>>,
     <<[k |-> S_lastName, v |-> [str |-> V_Cohen]],
       [k |-> <<>>, v |-> [dict |-> <<[k |-> S_lastName, v |-> [str |-> <<>>]]>>]]>>,
     <<[k |-> S_address \o <<".">> \o S_postalCode, v |-> [str |-> DigitRun(5)]],
       [k |-> S_lastName, v |-> [str |-> V_Cohen]]>>}

\* extractions with leaves whose names are longer than a required name: one
\* that ends with FirstName and one that ends with firstName
S_spouseFirstName == <<"s", "p", "o", "u", "s", "e", "F", "i", "r", "s", "t", "N", "a", "m", "e">>
S_spousefirstName == <<"s", "p", "o", "u", "s", "e", "f", "i", "r", "s", "t", "N", "a", "m", "e">>

SuffixExtractions ==
    {a \o b \o c :
        a \in LeafChoices(S_firstName, {<<>>, V_David}),
        b \in LeafChoices(S_spouseFirstName, {<<>>, V_David}),
        c \in LeafChoices(S_spousefirstName, {<<>>, V_David})}

\* the date of the clock, datetime.now()
Nows == {<<2025, 6, 15>>}

DataCalls ==
    [op : {"validate_extracted_data"},
     structured_data : Extractions \cup DatedExtractions \cup KeyedExtractions
                       \cup SuffixExtractions,
     ocr_data : OcrDatas, now : Nows]

\* calls of _check_consistency_with_ocr: simple values found, found in
\* part, similar to and absent from the OCR text, short or blank values,
\* digits and text, and dates given as dicts
V_John   == <<"J", "o", "h", "n">>
V_Zyxqpr == <<"Z", "y", "x", "q", "p", "r">>
V_Smith  == <<"S", "m", "i", "t", "h">>

ConsistencyValues ==
    {[str |-> s] :
        s \in {V_John, V_Zyxqpr, V_John \o <<" ">> \o V_Smith,
               V_Zyxqpr \o <<" ">> \o V_Smith, V_Zyxqpr \o <<" ">> \o <<"J", "o">>,
               <<"J", "o", "n">>, <<"J", "o", "h", "m">>, <<"S", "m", "i", "t", "h", "e">>, <<" ", " ", " ", " ", " ">>, <<>>,
               DigitRun(9), <<"1", "2", "3", "-", "4", "5", "6", " ", "7", "8", "9">>, <<"1", "2", "a", "4", "5">>, <<"-", "-", " ", "-", "-">>, <<"1", "2", "3">>, V_Cohen \o <<" ">> \o V_David}}
    \cup {[dict |-> d] :
        d \in {<<>>,
               DateSection(NatToStr(10), NatToStr(5), NatToStr(2024)),
               DateSection(NatToStr(31), NatToStr(2), NatToStr(2024)),
               DateSection(NatToStr(1), NatToStr(1), NatToStr(2030)),
               DateSection(<<>>, <<>>, <<>>),
               DateSection(<<"x">>, NatToStr(5), NatToStr(2024)),
               <<[k |-> S_day, v |-> [str |-> NatToStr(10)]]>>,
               <<[k |-> S_day, v |-> [str |-> NatToStr(10)]],
                 [k |-> S_month, v |-> [str |-> <<"z", "z">>]]>>,
               <<[k |-> S_day, v |-> [str |-> <<" ", "J", "O", "H", "N", " ">>]],
                 [k |-> S_month, v |-> [str |-> <<" ", " ">>]]>>,
               DateSection(NatToStr(10), <<"z", "z">>, <<"y", "y">>)}}

ConsistencyFields ==
    {S_firstName, S_lastName, S_idNumber, S_mobilePhone, S_address,
     S_dateOfInjury, S_injuryDate, S_formFillingDate, S_unknownXyz}

ConsistencyOcrDatas ==
    {[text |-> <<>>],
     [text |-> <<Span(<<"N", "a", "m", "e", ":", " ", "J", "O", "H", "N", " ", "S", "M", "I", "T", "H">>, Ratio(9, 10), Box(0, 0, 2, 1))>>],
     [text |-> <<Span(<<"J", "o">>, Ratio(9, 10), Box(0, 0, 2, 1)),
                 Span(<<"h", "n", " ", "S", "m", "i">>, Ratio(9, 10), Box(0, 2, 2, 1))>>],
     [text |-> <<Span(V_Cohen \o <<" ">> \o V_David, Ratio(9, 10), Box(0, 0, 2, 1)),
                 Span(DigitRun(9), Ratio(1, 2), Box(0, 2, 2, 1)),
                 [confidence |-> Ratio(1, 2)]>>],
     [text |-> <<Span(<<"1", "0", " ", "5", " ", "2", "0", "2", "4">>, Ratio(9, 10), Box(0, 0, 2, 1))>>],
     [text |-> <<Span(<<"J", "o", "h", "a", " ", "J", "o", "h", "n", " ", "S", "m", "i">>, Ratio(9, 10), Box(0, 0, 2, 1)),
                 Span(<<"S", "m", "i", "t", "h", " ", "S", "M", "I", "T", "H", "E", "S">>, Ratio(9, 10), Box(0, 2, 2, 1))>>]}

ConsistencyCalls ==
    [op : {"_check_consistency_with_ocr"}, field_name : ConsistencyFields,
     value : ConsistencyValues, ocr_data : ConsistencyOcrDatas, now : Nows]

\* the boxes of the spans: BoxA and BoxB overlap, BoxC lies apart
BoxA == Box(0, 0, 2, 2)
BoxB == Box(1, 1, 2, 2)
BoxC == Box(5, 5, 1, 1)

\* the kinds of span: confident or not, overlapping or not, and one with
\* neither confidence nor box
SpanKinds ==
    {Span(<<"a">>, Ratio(9, 10), BoxA),
     Span(<<"b">>, Ratio(1, 2), BoxB),
     Span(<<"c">>, Ratio(49, 100), BoxB),
     Span(<<"d">>, Ratio(9, 10), BoxC),
     [text |-> <<"e">>]}

\* n copies of span
Copies(span, n) == [i \in 1..n |-> span]

\* lists of spans: a run of one kind followed by a short run of another
SpanLists ==
    {Copies(a, n) \o Copies(b, m) :
        a \in SpanKinds, n \in 0..MaxHeadRun, b \in SpanKinds, m \in 0..MaxTailRun}

\* a table is a list of cells
Table == [cells |-> <<[text |-> <<"t">>, row_index |-> 0, column_index |-> 0]>>]

\* OCR results: tables absent, empty, or holding one table
OcrResults ==
    {[text |-> spans] : spans \in SpanLists}
    \cup {[text |-> spans, tables |-> tables] :
            spans \in SpanLists, tables \in {<<>>, <<Table>>}}
    \cup {[tables |-> <<Table>>]}

ExtractionCalls == [op : {"validate_extraction"}, extraction_result : OcrResults]

\* calls of _validate_spatial_coherence: the box of an element and up to
\* MaxElements elements, with boxes that overlap it, equal it or lie apart,
\* and elements without a box
CoherenceElements ==
    {Span(<<"a">>, Ratio(9, 10), BoxA), Span(<<"b">>, Ratio(1, 2), BoxB),
     Span(<<"d">>, Ratio(9, 10), BoxC), [text |-> <<"e">>]}

CoherenceLists ==
    UNION {[1..n -> CoherenceElements] : n \in 0..MaxElements}

CoherenceCalls ==
    [op : {"_validate_spatial_coherence"}, bbox : {BoxA, BoxB, BoxC},
     all_elements : CoherenceLists]

\* the record of a call: the call, what it logged, and the injury date the
\* validator held before it and holds after it
Made(made, logged, stored, left) ==
    [call |-> made, findings |-> logged, stored |-> stored, left |-> left]

Constructor == [op |-> "__init__"]

\* the calls made one after another on one validator: checks of an injury
\* date and of a form-filling date, valid and invalid, earlier and later,
\* and validate_extracted_data passes with and without dates
InstanceDates ==
    {DateSection(NatToStr(10), NatToStr(5), NatToStr(2024)),
     DateSection(NatToStr(1), NatToStr(5), NatToStr(2024)),
     DateSection(NatToStr(20), NatToStr(5), NatToStr(2024)),
     DateSection(NatToStr(31), NatToStr(2), NatToStr(2025))}

InstanceExtractions ==
    {<<[k |-> S_lastName, v |-> [str |-> V_Cohen]]>>,
     <<[k |-> S_injuryDate,
        v |-> [dict |-> DateSection(NatToStr(20), NatToStr(5), NatToStr(2024))]],
       [k |-> S_formFillingDate,
        v |-> [dict |-> DateSection(NatToStr(1), NatToStr(5), NatToStr(2024))]]>>}

InstanceCalls ==
    [op : {"_check_consistency_with_ocr"}, field_name : {S_injuryDate, S_formFillingDate},
     value : {[dict |-> d] : d \in InstanceDates}, ocr_data : {[text |-> <<>>]},
     now : Nows]
    \cup [op : {"validate_extracted_data"}, structured_data : InstanceExtractions,
          ocr_data : {[text |-> <<>>]}, now : Nows]

\* field names given to _infer_field_type: a first part and a second part,
\* either possibly empty, in mixed case, and names of the expected schema
NameHeads == {<<>>, <<"m", "o", "b", "i", "l", "e">>, <<"l", "a", "s", "t">>, <<"h", "o", "m", "e">>, <<"I", "D">>, <<"b", "i", "r", "t", "h">>, <<"w", "o", "r", "k">>}
NameTails == {<<>>, <<"P", "h", "o", "n", "e">>, <<"N", "a", "m", "e">>, <<"N", "u", "m", "b", "e", "r">>, <<"D", "a", "t", "e">>, <<"A", "d", "d", "r", "e", "s", "s">>, <<"C", "i", "t", "y">>, <<"X", "y", "z">>, <<"C", "O", "D", "E">>, <<"T", "e", "l">>}

FieldNames ==
    {h \o t : h \in NameHeads, t \in NameTails}
    \cup {S_mobilePhone, S_lastName, S_idNumber, S_unknownXyz, S_accidentDescription}

InferCalls == [op : {"_infer_field_type"}, field_name : FieldNames]

\* boxes given to _calculate_overlap: whole-number corners and sizes, a size
\* of 0 included, and boxes that lack keys
OverlapBoxes ==
    {Box(x, y, width, height) :
        x \in {0, 1, 3}, y \in {0, 1}, width \in {0, 1, 2}, height \in {0, 2}}
    \cup {<<>>, [x |-> 0, y |-> 0, width |-> 2], [width |-> 2, height |-> 2]}

OverlapCalls == [op : {"_calculate_overlap"}, bbox1 : OverlapBoxes, bbox2 : OverlapBoxes]

\* positions given to validate_spatial_position: on, just inside and just
\* outside the bounds of the zones, and one without x
Positions ==
    {[x |-> x, y |-> y, width |-> 10, height |-> 2] :
        x \in {0, 19, 20, 40, 41, 60, 80, 81}, y \in {19, 20, 30, 31}}
    \cup {[y |-> 20, width |-> 10, height |-> 2]}

\* page dimensions: a page of 100 by 100, larger ones, and dimensions of 0
PageDims == [width : {0, 100, 200}, height : {0, 100}]

PositionCalls ==
    [op : {"validate_spatial_position"},
     field : {S_lastName, S_firstName, S_idNumber, S_postalCode},
     position : Positions, page_dims : PageDims]

\* the elements a polygon is made of: points, a point with a coordinate of
\* None, an object with x but no y, numbers, pairs, lists of 1 and of 3 items,
\* a pair with a coordinate of None, None and a string
PointAt(x, y) == [point |-> [x |-> [num |-> x], y |-> [num |-> y]]]
PairAt(x, y)  == [list |-> <<[num |-> x], [num |-> y]>>]

PolygonElements ==
    {PointAt(0, 0), PointAt(2, 3),
     [point |-> [x |-> None, y |-> [num |-> 1]]],
     [point |-> [x |-> [num |-> 1]]],
     [num |-> 1], [num |-> 4],
     PairAt(1, 2), PairAt(3, 0),
     [list |-> <<[num |-> 1]>>],
     [list |-> <<[num |-> 1], [num |-> 2], [num |-> 3]>>],
     [list |-> <<None, [num |-> 2]>>],
     None,
     [str |-> TRUE]}

\* polygons: None, every list of at most MaxPolygonLen elements, and the
\* four corners of a line in each of the three encodings
PolygonLists ==
    UNION {[1..n -> PolygonElements] : n \in 0..MaxPolygonLen}
    \cup {<<PointAt(1, 2), PointAt(5, 2), PointAt(5, 4), PointAt(1, 4)>>,
          <<PairAt(1, 2), PairAt(5, 2), PairAt(5, 4), PairAt(1, 4)>>,
          [i \in 1..8 |-> [num |-> <<1, 2, 5, 2, 5, 4, 1, 4>>[i]]]}

Polygons == {None} \cup {[elements |-> elements] : elements \in PolygonLists}

BoundingBoxCalls == [op : {"_extract_bounding_box"}, polygon : Polygons]

\* JSON objects the model may answer: each of some keys absent, a string,
\* null, a number or an object; sections absent, empty, partial, with an
\* unexpected key or no object at all; keys outside the schema
JsonEntry(key, values) == {<<>>} \cup {<<[k |-> key, v |-> val]>> : val \in values}

RawResults ==
    {a \o b \o c \o d \o e :
        a \in JsonEntry(S_lastName,
                {[str |-> V_Cohen], [str |-> <<>>], None, [num |-> 5],
                 [dict |-> <<[k |-> S_firstName, v |-> [str |-> V_David]]>>]}),
        b \in JsonEntry(S_address,
                {[dict |-> <<>>],
                 [dict |-> <<[k |-> S_postalCode, v |-> [str |-> DigitRun(5)]]>>],
                 [dict |-> <<[k |-> S_postalCode, v |-> None],
                             [k |-> S_unknownXyz, v |-> [str |-> V_David]]>>],
                 [str |-> V_Cohen], None}),
        c \in JsonEntry(S_idNumber, {[str |-> DigitRun(9)]}),
        d \in JsonEntry(S_confidences,
                {[dict |-> <<[k |-> S_lastName, v |-> [num |-> 1]]>>]}),
        e \in JsonEntry(S_unknownXyz, {[str |-> V_David]})}

ExtractCalls == [op : {"extract_structured_data"}, raw_result : RawResults]

TrackerConstructor == [op |-> "StatisticsTracker"]

\* the documents tracked one after another by one tracker: two ids, and
\* extractions with a valid, an invalid and an empty idNumber, a postal code
\* under address, a birth date, a missing leaf, and a lastName (a field
\* without expected format) after and before a checked field
TrackedIds == {<<"a">>, <<"b">>}

Leaf(name, s) == [k |-> name, v |-> [str |-> s]]

TrackedAddress == [k |-> S_address, v |-> [dict |-> <<Leaf(S_postalCode, NatToStr(12345))>>]]

TrackedPostalCode == Leaf(S_address \o <<".">> \o S_postalCode, NatToStr(12345))

TrackedBirth ==
    <<Leaf(S_dateOfBirth \o <<".">> \o S_day, NatToStr(31)),
      Leaf(S_dateOfBirth \o <<".">> \o S_month, NatToStr(13)),
      Leaf(S_dateOfBirth \o <<".">> \o S_year, NatToStr(1999) \o <<"\n">>)>>

TrackedPairs ==
    {[original |-> <<Leaf(S_idNumber, NatToStr(123456789))>>,
      final    |-> <<Leaf(S_idNumber, NatToStr(123456789))>>],
     [original |-> <<Leaf(S_idNumber, NatToStr(12))>>,
      final    |-> <<Leaf(S_idNumber, NatToStr(123456789))>>],
     [original |-> <<Leaf(S_idNumber, <<>>), TrackedPostalCode>>,
      final    |-> <<Leaf(S_idNumber, <<>>), TrackedPostalCode>>],
     [original |-> <<[k |-> S_mobilePhone, v |-> None]>> \o TrackedBirth,
      final    |-> <<Leaf(S_mobilePhone, NatToStr(1234567890))>>],
     [original |-> <<Leaf(S_idNumber, NatToStr(123456789)), Leaf(S_lastName, S_lastName)>>,
      final    |-> <<Leaf(S_idNumber, NatToStr(123456789)), Leaf(S_lastName, S_lastName)>>],
     [original |-> <<Leaf(S_lastName, S_lastName), Leaf(S_idNumber, NatToStr(123456789))>>,
      final    |-> <<Leaf(S_lastName, S_lastName), Leaf(S_idNumber, NatToStr(123456789))>>],
     [original |-> <<Leaf(S_idNumber, NatToStr(123456789)), TrackedAddress>>,
      final    |-> <<Leaf(S_idNumber, NatToStr(123456789)), TrackedAddress>>],
     [original |-> <<Leaf(S_idNumber, NatToStr(12)), [k |-> S_address, v |-> [dict |-> <<>>]]>>,
      final    |-> <<[k |-> <<>>, v |-> [dict |-> <<Leaf(<<"i", "d">>, NatToStr(1))>>]]>>]}

TrackCalls ==
    {[op |-> "track_document", doc_id |-> id, original_extraction |-> pair.original,
      final_extraction |-> pair.final] : id \in TrackedIds, pair \in TrackedPairs}

(***************************************************************************)
(* The state machine: one call, run to its end.                            *)
(***************************************************************************)
\* a fresh validator and a call about to run
Fresh ==
    /\ pc = "call"
    /\ ret = NoRet
    /\ findings = <<>>
    /\ injury_date = <<>>
    /\ files = {}
    /\ history = <<>>
    /\ data = NoData

InitFormat == call \in FormatCalls /\ Fresh

InitDate == call \in DateCalls /\ Fresh

InitData == call \in DataCalls /\ Fresh

InitExtraction == call \in ExtractionCalls /\ Fresh

InitInfer == call \in InferCalls /\ Fresh

InitOverlap == call \in OverlapCalls /\ Fresh

InitPosition == call \in PositionCalls /\ Fresh

InitBoundingBox == call \in BoundingBoxCalls /\ Fresh

InitExtract == call \in ExtractCalls /\ Fresh

InitConsistency == call \in ConsistencyCalls /\ Fresh

InitCoherence == call \in CoherenceCalls /\ Fresh

\* ExtractionValidator(): a validator that has just been constructed, on
\* which the caller goes on to make several calls
InitInstance ==
    /\ pc = "done"
    /\ call = Constructor
    /\ ret = NoRet
    /\ findings = <<>>
    /\ injury_date = <<>>
    /\ files = {}
    /\ history = <<Made(Constructor, <<>>, <<>>, <<>>)>>
    /\ data = NoData

\* a tracker constructed where no statistics file exists
InitTracker ==
    /\ pc = "done"
    /\ call = TrackerConstructor
    /\ ret = NoRet
    /\ findings = <<>>
    /\ injury_date = <<>>
    /\ files = {}
    /\ history = <<Made(TrackerConstructor, <<>>, <<>>, <<>>)>>
    /\ data = NoData

Init ==
    \/ InitFormat
    \/ InitDate
    \/ InitData
    \/ InitExtraction
    \/ InitInfer
    \/ InitOverlap
    \/ InitPosition
    \/ InitBoundingBox
    \/ InitExtract
    \/ InitConsistency
    \/ InitCoherence
    \/ InitInstance
    \/ InitTracker

ValidateFormat ==
    /\ pc = "call"
    /\ call.op = "validate_format"
    /\ ret' = validate_format(call.field, call.value)
    /\ pc' = "done"
    /\ UNCHANGED <<call, findings, injury_date, files, history, data>>

ValidateDate ==
    /\ pc = "call"
    /\ call.op = "validate_date"
    /\ ret' = validate_date(call.date_dict)
    /\ pc' = "done"
    /\ UNCHANGED <<call, findings, injury_date, files, history, data>>

ValidateExtractedData ==
    /\ pc = "call"
    /\ call.op = "validate_extracted_data"
    /\ LET flat_data == _flatten_dict(call.structured_data, <<>>)
           pass == consistency_pass(format_checked(flat_data), call.ocr_data,
                                    injury_date, call.now)
       IN  /\ findings' = findings \o pass.findings
           /\ injury_date' = pass.injury_date
           /\ history' = Append(history, Made(call, pass.findings, injury_date,
                                               pass.injury_date))
    /\ ret' = validate_extracted_data(call.structured_data, call.ocr_data)
    /\ pc' = "done"
    /\ UNCHANGED <<call, files, data>>

ValidateExtraction ==
    /\ pc = "call"
    /\ call.op = "validate_extraction"
    /\ ret' = validate_extraction(call.extraction_result)
    /\ pc' = "done"
    /\ UNCHANGED <<call, findings, injury_date, files, history, data>>

InferFieldType ==
    /\ pc = "call"
    /\ call.op = "_infer_field_type"
    /\ ret' = _infer_field_type(call.field_name)
    /\ pc' = "done"
    /\ UNCHANGED <<call, findings, injury_date, files, history, data>>

CalculateOverlap ==
    /\ pc = "call"
    /\ call.op = "_calculate_overlap"
    /\ ret' = _calculate_overlap(call.bbox1, call.bbox2)
    /\ pc' = "done"
    /\ UNCHANGED <<call, findings, injury_date, files, history, data>>

ValidateSpatialPosition ==
    /\ pc = "call"
    /\ call.op = "validate_spatial_position"
    /\ ret' = validate_spatial_position(call.field, call.position, call.page_dims)
    /\ pc' = "done"
    /\ UNCHANGED <<call, findings, injury_date, files, history, data>>

ExtractBoundingBox ==
    /\ pc = "call"
    /\ call.op = "_extract_bounding_box"
    /\ ret' = _extract_bounding_box(call.polygon)
    /\ pc' = "done"
    /\ UNCHANGED <<call, findings, injury_date, files, history, data>>

ExtractStructuredData ==
    /\ pc = "call"
    /\ call.op = "extract_structured_data"
    /\ ret' = extract_structured_data(call.raw_result)
    /\ files' = files \cup {extraction_data(extract_structured_data(call.raw_result))}
    /\ pc' = "done"
    /\ UNCHANGED <<call, findings, injury_date, history, data>>

CheckConsistencyWithOcr ==
    /\ pc = "call"
    /\ call.op = "_check_consistency_with_ocr"
    /\ LET checked == _check_consistency_with_ocr(call.field_name, call.value,
                                                  call.ocr_data, injury_date, call.now)
       IN  /\ findings' = findings \o checked.findings
           /\ injury_date' = checked.injury_date
           /\ history' = Append(history, Made(call, checked.findings, injury_date,
                                               checked.injury_date))
    /\ ret' = None
    /\ pc' = "done"
    /\ UNCHANGED <<call, files, data>>

\* the caller tracks one more document with the tracker it constructed
NextTrack ==
    /\ pc = "done"
    /\ history # <<>>
    /\ history[1].call = TrackerConstructor
    /\ Len(history) <= MaxCalls
    /\ call' \in TrackCalls
    /\ pc' = "call"
    /\ ret' = NoRet
    /\ UNCHANGED <<findings, injury_date, files, history, data>>

\* track_document: the entry is stamped with the number of the call, and
\* _save_data rewrites the statistics file unless the call raised before
TrackDocument ==
    /\ pc = "call"
    /\ call.op = "track_document"
    /\ LET tracked == track_document(data, call.doc_id, call.original_extraction,
                                     call.final_extraction, Len(history))
       IN  /\ data' = tracked.data
           /\ ret' = [raised |-> tracked.raised, error |-> tracked.error]
           /\ files' = IF tracked.raised THEN files ELSE {[stats_data |-> tracked.data]}
    /\ history' = Append(history, Made(call, <<>>, <<>>, <<>>))
    /\ pc' = "done"
    /\ UNCHANGED <<call, findings, injury_date>>

\* the caller makes one more call on the validator it constructed
NextCall ==
    /\ pc = "done"
    /\ history # <<>>
    /\ history[1].call = Constructor
    /\ Len(history) <= MaxCalls
    /\ call' \in InstanceCalls
    /\ pc' = "call"
    /\ ret' = NoRet
    /\ UNCHANGED <<findings, injury_date, files, history, data>>

ValidateSpatialCoherence ==
    /\ pc = "call"
    /\ call.op = "_validate_spatial_coherence"
    /\ ret' = _validate_spatial_coherence(call.bbox, call.all_elements)
    /\ pc' = "done"
    /\ UNCHANGED <<call, findings, injury_date, files, history, data>>

Next ==
    \/ ValidateFormat
    \/ ValidateDate
    \/ ValidateExtractedData
    \/ ValidateExtraction
    \/ InferFieldType
    \/ CalculateOverlap
    \/ ValidateSpatialPosition
    \/ ExtractBoundingBox
    \/ ExtractStructuredData
    \/ CheckConsistencyWithOcr
    \/ ValidateSpatialCoherence
    \/ NextCall
    \/ NextTrack
    \/ TrackDocument

Spec == Init /\ [][Next]_vars

SpecFormat == InitFormat /\ [][ValidateFormat]_vars

SpecDate == InitDate /\ [][ValidateDate]_vars

SpecData == InitData /\ [][ValidateExtractedData]_vars

SpecExtraction == InitExtraction /\ [][ValidateExtraction]_vars

SpecInfer == InitInfer /\ [][InferFieldType]_vars

SpecOverlap == InitOverlap /\ [][CalculateOverlap]_vars

SpecPosition == InitPosition /\ [][ValidateSpatialPosition]_vars

SpecBoundingBox == InitBoundingBox /\ [][ExtractBoundingBox]_vars

SpecExtract == InitExtract /\ [][ExtractStructuredData]_vars

SpecConsistency == InitConsistency /\ [][CheckConsistencyWithOcr]_vars

SpecCoherence == InitCoherence /\ [][ValidateSpatialCoherence]_vars

SpecTracker == InitTracker /\ [][NextTrack \/ TrackDocument]_vars

SpecInstance ==
    InitInstance /\ [][NextCall \/ ValidateExtractedData \/ CheckConsistencyWithOcr]_vars

(***************************************************************************)
(* Claims about validate_format.                                           *)
(***************************************************************************)
FormatDone == pc = "done" /\ call.op = "validate_format"

\* the patterns as the claim words them: the number of digits each field takes
ClaimedDigitCounts(field) ==
    IF field = S_idNumber THEN 9..9
    ELSE IF field = S_mobilePhone THEN 10..10
    ELSE IF field = S_landlinePhone THEN 9..9
    ELSE IF field = S_postalCode THEN 5..7
    ELSE {}

ClaimedRegistered == {S_idNumber, S_mobilePhone, S_landlinePhone, S_postalCode}

\* the whole value is digits, in a number the field's pattern allows
WholeValueMatches(field, value) ==
    /\ Len(value) \in ClaimedDigitCounts(field)
    /\ \A i \in 1..Len(value) : IsDigit(value[i])

\* C1: validate_format returns true if and only if the value is empty, or no
\* pattern is registered for the field, or the whole value, with no extra
\* leading or trailing character, matches the field's pattern.
C1_FormatIffWholeMatch ==
    FormatDone =>
        (ret <=> \/ call.value = <<>>
                 \/ call.field \notin ClaimedRegistered
                 \/ WholeValueMatches(call.field, call.value))

(***************************************************************************)
(* Claims about validate_date.                                             *)
(***************************************************************************)
DateDone == pc = "done" /\ call.op = "validate_date"

Incomplete(date_dict) ==
    \E k \in {"day", "month", "year"} : k \notin DOMAIN date_dict \/ date_dict[k] = <<>>

\* C2: validate_date returns (true, "") for every date mapping in which one of
\* day, month, year is absent or empty, whatever the other components hold.
C2_IncompleteDateAccepted ==
    (DateDone /\ Incomplete(call.date_dict)) => ret = [valid |-> TRUE, error |-> ""]

\* C2 witness: a date with no day and a month that is no number was accepted
C2_Witness ==
    /\ DateDone
    /\ "day" \notin DOMAIN call.date_dict
    /\ "month" \in DOMAIN call.date_dict
    /\ call.date_dict["month"] = <<"a", "b">>
    /\ ret.valid

ParsesAsInteger(s) == int(s).ok

\* month 1-12 and day within the month's length, leap years respected
RealCalendarDate(y, m, d) ==
    /\ m \in 1..12
    /\ d >= 1
    /\ d <= (IF m = 2
             THEN (IF y % 4 = 0 /\ (y % 100 # 0 \/ y % 400 = 0) THEN 29 ELSE 28)
             ELSE IF m \in {4, 6, 9, 11} THEN 30 ELSE 31)

ComponentsDenote(date_dict, years) ==
    /\ \A k \in {"day", "month", "year"} : ParsesAsInteger(date_dict[k])
    /\ int(date_dict["year"]).val \in years
    /\ RealCalendarDate(int(date_dict["year"]).val, int(date_dict["month"]).val,
                        int(date_dict["day"]).val)

\* C3 as claimed: for a complete date, validate_date returns (true, "") if and
\* only if the components parse as integers and denote a real calendar date
\* (month 1-12, day within the month's length, leap years respected), of any
\* year from 1 on; otherwise it returns (false, non-empty reason).
C3_Original_AnyYear ==
    (DateDone /\ ~Incomplete(call.date_dict)) =>
        IF ComponentsDenote(call.date_dict, {y \in Int : y >= 1})
        THEN ret = [valid |-> TRUE, error |-> ""]
        ELSE ~ret.valid /\ ret.error # ""

\* C3 amended: for a complete date, validate_date returns (true, "") if and
\* only if the components parse as integers and denote a calendar date of a
\* year from 1 to 9999 (month 1-12, day within the month's length, leap years
\* respected); otherwise it returns (false, non-empty reason).
C3_CompleteDateValidIffCalendarDate ==
    (DateDone /\ ~Incomplete(call.date_dict)) =>
        IF ComponentsDenote(call.date_dict, 1..9999)
        THEN ret = [valid |-> TRUE, error |-> ""]
        ELSE ~ret.valid /\ ret.error # ""

\* C3 witness: 31 February 2020 was refused, with a reason
C3_Witness ==
    /\ DateDone
    /\ call.date_dict = [day |-> <<"3", "1">>, month |-> <<"0", "2">>,
                         year |-> <<"2", "0", "2", "0">>]
    /\ ~ret.valid
    /\ ret.error # ""

(***************************************************************************)
(* Claims about validate_extracted_data.                                   *)
(***************************************************************************)
DataDone == pc = "done" /\ call.op = "validate_extracted_data"

\* the flattened extraction of the call
Flat == _flatten_dict(call.structured_data, <<>>)

\* the leaf holds something once whitespace is trimmed
NonEmptyTrimmed(value) == strip(value) # <<>>

\* the places of Flat whose leaf is non-empty after trimming
FilledLeaves == {i \in 1..Len(Flat) : NonEmptyTrimmed(Flat[i].v)}

\* the number of times x occurs in the sequence seq
Occurrences(seq, x) == Cardinality({i \in 1..Len(seq) : seq[i] = x})

\* C4: completeness.total_fields is the number of flattened leaves,
\* filled_fields the number of them that are non-empty after trimming, and
\* score is filled_fields / total_fields, 0 when there is no leaf.
C4_CompletenessCounts ==
    DataDone =>
        /\ ret.completeness.total_fields = Len(Flat)
        /\ ret.completeness.filled_fields = Cardinality(FilledLeaves)
        /\ IF Len(Flat) = 0
           THEN ret.completeness.score = Zero
           ELSE ret.completeness.score.num * Len(Flat)
                    = Cardinality(FilledLeaves) * ret.completeness.score.den

\* C4 witness: a blank leaf was counted as a field and not as a filled one
C4_Witness ==
    /\ DataDone
    /\ \E i \in 1..Len(Flat) : Flat[i].v = V_blank
    /\ ret.completeness.filled_fields >= 1
    /\ ret.completeness.filled_fields < ret.completeness.total_fields
    /\ ret.completeness.score # Zero

RequiredNames == {S_lastName, S_firstName, S_idNumber}

\* the number of required names the key ends with
RequiredEndings(key) == Cardinality({name \in RequiredNames : endswith(key, name)})

\* C5: missing_required holds exactly the flattened keys that end with a
\* required name and whose value is empty after trimming, each once per
\* required name it ends with; a key with a non-empty value is never listed.
C5_MissingRequiredExact ==
    DataDone =>
        /\ \A i \in 1..Len(Flat) :
              Occurrences(ret.completeness.missing_required, Flat[i].k)
                = IF NonEmptyTrimmed(Flat[i].v) THEN 0 ELSE RequiredEndings(Flat[i].k)
        /\ \A j \in 1..Len(ret.completeness.missing_required) :
              \E i \in 1..Len(Flat) : Flat[i].k = ret.completeness.missing_required[j]

\* C5 witness: an empty nested leaf ending with a required name was listed,
\* and a filled required leaf of the same extraction was not
C5_Witness ==
    /\ DataDone
    /\ Occurrences(ret.completeness.missing_required,
                   S_confidences \o <<".">> \o S_firstName) = 1
    /\ \E i \in 1..Len(Flat) : Flat[i].k = S_lastName /\ Flat[i].v = V_Cohen
    /\ Occurrences(ret.completeness.missing_required, S_lastName) = 0

\* the leaves accuracy is computed over: non-empty, path without "confidence"
AccuracyLeaves ==
    {i \in FilledLeaves : ~contains(Flat[i].k, S_confidence)}

\* those of them that pass validate_format on the last segment of the path
PassingLeaves ==
    {i \in AccuracyLeaves : validate_format(split_last(Flat[i].k), Flat[i].v)}

\* C6: accuracy is computed over the non-empty leaves whose path does not
\* contain "confidence"; each is checked with validate_format on the last
\* segment of its path; a passing leaf counts in valid_format_fields, and a
\* failing leaf gets exactly one record {field: full path, value, reason:
\* "Invalid format"} in invalid_fields, which holds nothing else.
C6_AccuracyByLeafName ==
    DataDone =>
        /\ ret.accuracy.total_fields = Cardinality(AccuracyLeaves)
        /\ ret.accuracy.valid_format_fields = Cardinality(PassingLeaves)
        /\ \A i \in 1..Len(Flat) :
              Occurrences(ret.accuracy.invalid_fields,
                          [field |-> Flat[i].k, value |-> Flat[i].v,
                           reason |-> "Invalid format"])
                = IF i \in AccuracyLeaves \ PassingLeaves THEN 1 ELSE 0
        /\ Len(ret.accuracy.invalid_fields)
              = Cardinality(AccuracyLeaves \ PassingLeaves)

\* C6 witness: address.postalCode failed the postalCode pattern and was
\* recorded under its full path, while a leaf under "confidences" that fails
\* its pattern was left out
C6_Witness ==
    /\ DataDone
    /\ Occurrences(ret.accuracy.invalid_fields,
                   [field |-> S_address \o <<".">> \o S_postalCode,
                    value |-> DigitRun(4), reason |-> "Invalid format"]) = 1
    /\ \E i \in 1..Len(Flat) :
          Flat[i].k = S_confidences \o <<".">> \o S_idNumber /\ Flat[i].v = DigitRun(2)
    /\ ret.accuracy.valid_format_fields >= 1
    /\ Len(ret.accuracy.invalid_fields) = 1

\* a score within [0, 1]
InUnitInterval(score) == RatLeq(Zero, score) /\ RatLeq(score, One)

\* C7: in every result, both scores lie in [0,1], filled_fields <=
\* completeness.total_fields, valid_format_fields <= accuracy.total_fields,
\* valid_format_fields + the number of invalid_fields records =
\* accuracy.total_fields, and accuracy.total_fields <= filled_fields.
C7_ResultInvariants ==
    DataDone =>
        /\ InUnitInterval(ret.completeness.score)
        /\ InUnitInterval(ret.accuracy.score)
        /\ ret.completeness.filled_fields <= ret.completeness.total_fields
        /\ ret.accuracy.valid_format_fields <= ret.accuracy.total_fields
        /\ ret.accuracy.valid_format_fields + Len(ret.accuracy.invalid_fields)
              = ret.accuracy.total_fields
        /\ ret.accuracy.total_fields <= ret.completeness.filled_fields

\* C7 witness: a result with empty, filled, valid, invalid and skipped leaves
C7_Witness ==
    /\ DataDone
    /\ ret.completeness.filled_fields < ret.completeness.total_fields
    /\ ret.accuracy.total_fields < ret.completeness.filled_fields
    /\ ret.accuracy.valid_format_fields >= 1
    /\ Len(ret.accuracy.invalid_fields) >= 1

\* the top-level field of that name holds a value (after trimming)
TopLevelFilled(name) ==
    \E i \in 1..Len(call.structured_data) :
        /\ call.structured_data[i].k = name
        /\ ~IsDict(call.structured_data[i].v)
        /\ NonEmptyTrimmed(call.structured_data[i].v.str)

\* every non-empty leaf whose leaf name has a registered pattern matches it
PatternedLeavesMatch ==
    \A i \in FilledLeaves :
        split_last(Flat[i].k) \in ClaimedRegistered
            => WholeValueMatches(split_last(Flat[i].k), Flat[i].v)

\* every leaf whose flattened key ends with a required name holds a value
RequiredEndingsFilled ==
    \A i \in 1..Len(Flat) : RequiredEndings(Flat[i].k) > 0 => i \in FilledLeaves

\* C8 as claimed: when lastName, firstName and idNumber are non-empty and
\* every non-empty leaf whose leaf name has a registered pattern matches it,
\* accuracy.score is 1.0 and missing_required is empty, whatever the OCR text.
C8_Original_RequiredFilled ==
    (DataDone /\ (\A name \in RequiredNames : TopLevelFilled(name)) /\ PatternedLeavesMatch)
        => ret.accuracy.score = One /\ ret.completeness.missing_required = <<>>

\* C8 amended: when lastName, firstName and idNumber are non-empty after
\* trimming, so is every other leaf whose flattened key ends with one of
\* these names, and every non-empty leaf whose leaf name has a registered
\* pattern matches it, accuracy.score is 1.0 and missing_required is empty,
\* whatever the OCR text.
C8_WellFormedExtractionScoresOne ==
    (DataDone /\ (\A name \in RequiredNames : TopLevelFilled(name))
              /\ RequiredEndingsFilled /\ PatternedLeavesMatch)
        => ret.accuracy.score = One /\ ret.completeness.missing_required = <<>>

\* C8 witness: a well-formed extraction with a nested leaf, validated against
\* an OCR text that holds none of its values
C8_Witness ==
    /\ DataDone
    /\ \A name \in RequiredNames : TopLevelFilled(name)
    /\ RequiredEndingsFilled
    /\ PatternedLeavesMatch
    /\ Len(Flat) >= 4
    /\ Len(call.ocr_data.text) = 1
    /\ ret.accuracy.score = One

(***************************************************************************)
(* Claims about validate_extraction.                                       *)
(***************************************************************************)
ExtractionDone == pc = "done" /\ call.op = "validate_extraction"

\* the text spans and the tables of the call
Spans  == list_or_empty(call.extraction_result, "text")
Tables == list_or_empty(call.extraction_result, "tables")

\* A: the mean confidence over all text spans
MeanConfidenceOfAll ==
    mean_or_zero([i \in 1..Len(Spans) |-> confidence_or_zero(Spans[i])])

\* S: the mean spatial-coherence score over all text spans
MeanCoherenceOfAll ==
    mean_or_zero([i \in 1..Len(Spans) |->
        _validate_spatial_coherence(box_or_empty(Spans[i]), Spans \o Tables).value])

\* C9: whenever validate_extraction returns, global_confidence is (A + S) / 2
\* with A the mean confidence and S the mean spatial coherence over all the
\* text spans, whatever their number, and 0 when there is no text span.
C9_GlobalConfidenceOverAllSpans ==
    (ExtractionDone /\ ret.raised = "") =>
        ret.global_confidence =
            IF Spans = <<>> THEN Zero
            ELSE RatDiv(RatAdd(MeanConfidenceOfAll, MeanCoherenceOfAll), Ratio(2, 1))

\* C10: validate_extraction returns validated_spans with one entry per input
\* text span, in input order, whose confidence_valid is true if and only if
\* the span's confidence, 0 when it has none, is at least 0.5.
C10_OneEntryPerSpan ==
    ExtractionDone =>
        /\ ret.raised = ""
        /\ Len(ret.validated_spans) = Len(Spans)
        /\ \A i \in 1..Len(Spans) :
              /\ ret.validated_spans[i].text = Spans[i].text
              /\ ret.validated_spans[i].confidence_valid
                    <=> /\ "confidence" \in DOMAIN Spans[i]
                        /\ Spans[i].confidence.num * 2 >= Spans[i].confidence.den

\* C11: for every OCR result of the documented shape (tables a list of lists
\* of cells, possibly non-empty) and every structured extraction with string
\* leaves, validate_extraction and validate_extracted_data return a result:
\* no exception of a per-span or per-field check reaches the caller.
C11_NoExceptionPropagates ==
    /\ (ExtractionDone /\ \A i \in 1..Len(Spans) :
            {"text", "confidence", "bounding_box"} \subseteq DOMAIN Spans[i])
          => ret.raised = ""
    /\ DataDone => "completeness" \in DOMAIN ret

(***************************************************************************)
(* Claims about _infer_field_type.                                         *)
(***************************************************************************)
InferDone == pc = "done" /\ call.op = "_infer_field_type"

\* the keyword groups in the order the claim gives them
ClaimedGroups ==
    <<[type |-> "numeric", keywords |-> {<<"i", "d">>, <<"n", "u", "m", "b", "e", "r">>, <<"n", "u", "m">>, <<"c", "o", "d", "e">>}],
      [type |-> "phone",   keywords |-> {<<"p", "h", "o", "n", "e">>, <<"t", "e", "l">>, <<"m", "o", "b", "i", "l", "e">>, <<"l", "a", "n", "d", "l", "i", "n", "e">>}],
      [type |-> "date",    keywords |-> {<<"d", "a", "t", "e">>, <<"d", "a", "y">>, <<"m", "o", "n", "t", "h">>, <<"y", "e", "a", "r">>}],
      [type |-> "text",    keywords |-> {<<"n", "a", "m", "e">>, <<"f", "i", "r", "s", "t">>, <<"l", "a", "s", "t">>, <<"f", "a", "m", "i", "l", "y">>}],
      [type |-> "address", keywords |-> {<<"a", "d", "d", "r", "e", "s", "s">>, <<"s", "t", "r", "e", "e", "t">>, <<"c", "i", "t", "y">>}]>>

\* keyword occurs in name, letter case ignored
OccursIgnoringCase(keyword, name) ==
    \E i \in 0..(Len(name) - Len(keyword)) :
        \A j \in 1..Len(keyword) : lower(<<name[i + j]>>) = lower(<<keyword[j]>>)

\* the groups that have a keyword occurring in name
MatchingGroups(name) ==
    {g \in 1..Len(ClaimedGroups) :
        \E keyword \in ClaimedGroups[g].keywords : OccursIgnoringCase(keyword, name)}

\* C13: _infer_field_type returns the type of the first group, in the order
\* numeric, phone, date, text, address, that has a keyword occurring in the
\* name as a case-insensitive substring, and unknown when no group has one;
\* mobilePhone gives phone, lastName gives text, unknownXyz gives unknown.
C13_FirstMatchingGroupWins ==
    InferDone =>
        /\ IF MatchingGroups(call.field_name) = {}
           THEN ret = "unknown"
           ELSE \E g \in MatchingGroups(call.field_name) :
                    /\ \A h \in MatchingGroups(call.field_name) : g <= h
                    /\ ret = ClaimedGroups[g].type
        /\ call.field_name = S_mobilePhone => ret = "phone"
        /\ call.field_name = S_lastName => ret = "text"
        /\ call.field_name = S_unknownXyz => ret = "unknown"

\* C13 witness: mobileNumber has a phone keyword and a numeric keyword, and
\* was given the earlier group, numeric
C13_Witness ==
    /\ InferDone
    /\ call.field_name = <<"m", "o", "b", "i", "l", "e", "N", "u", "m", "b", "e", "r">>
    /\ MatchingGroups(call.field_name) = {1, 2}
    /\ ret = "numeric"

(***************************************************************************)
(* Claims about _calculate_overlap.                                        *)
(***************************************************************************)
OverlapDone == pc = "done" /\ call.op = "_calculate_overlap"

Complete(bbox) == {"x", "y", "width", "height"} \subseteq DOMAIN bbox

\* the unit squares a rectangle with whole-number corners covers
Squares(bbox) ==
    {<<i, j>> : i \in bbox.x..(bbox.x + bbox.width - 1),
                j \in bbox.y..(bbox.y + bbox.height - 1)}

IntersectionArea(b1, b2) == Cardinality(Squares(b1) \cap Squares(b2))
UnionArea(b1, b2)        == Cardinality(Squares(b1) \cup Squares(b2))

\* C14: _calculate_overlap returns the intersection over union of the two
\* rectangles: a value in [0,1], the same for (b1, b2) and (b2, b1), 1.0 for
\* two identical boxes of positive area, and 0 when a box lacks one of x, y,
\* width, height, when the rectangles do not intersect, or when the union
\* area is zero.
C14_OverlapIsIoU ==
    OverlapDone =>
        LET b1 == call.bbox1
            b2 == call.bbox2
        IN  /\ InUnitInterval(ret)
            /\ ret = _calculate_overlap(b2, b1)
            /\ (~Complete(b1) \/ ~Complete(b2)) => ret = Zero
            /\ (Complete(b1) /\ Complete(b2)) =>
                  /\ IntersectionArea(b1, b2) = 0 => ret = Zero
                  /\ UnionArea(b1, b2) = 0 => ret = Zero
                  /\ UnionArea(b1, b2) > 0 =>
                        ret.num * UnionArea(b1, b2) = IntersectionArea(b1, b2) * ret.den
                  /\ (b1 = b2 /\ b1.width * b1.height > 0) => ret = One

\* C14 witness: two different boxes that overlap in part, scored between 0
\* and 1
C14_Witness ==
    /\ OverlapDone
    /\ call.bbox1 = Box(0, 0, 2, 2)
    /\ call.bbox2 = Box(1, 0, 2, 2)
    /\ ret = Ratio(1, 3)

(***************************************************************************)
(* Claims about validate_spatial_position.                                 *)
(***************************************************************************)
PositionDone == pc = "done" /\ call.op = "validate_spatial_position"

\* the zones as the bounds, in hundredths of the page, of x and of y
ClaimedZones ==
    (S_lastName :> [x |-> <<60, 80>>, y |-> <<20, 30>>])
    @@ (S_firstName :> [x |-> <<40, 60>>, y |-> <<20, 30>>])
    @@ (S_idNumber :> [x |-> <<20, 40>>, y |-> <<20, 30>>])

\* coordinate / dimension lies within the bounds, the bounds included
Within(bounds, coordinate, dimension) ==
    /\ bounds[1] * dimension <= 100 * coordinate
    /\ 100 * coordinate <= bounds[2] * dimension

\* how many of x and y lie within the zone of the field
CoordinatesWithin ==
    Cardinality(
        {axis \in {"x"} : Within(ClaimedZones[call.field].x, call.position.x,
                                 call.page_dims.width)}
        \cup {axis \in {"y"} : Within(ClaimedZones[call.field].y, call.position.y,
                                      call.page_dims.height)})

\* C19: validate_spatial_position returns 1.0 for a field without expected
\* zone; for a field with a zone it normalises x by the page width and y by
\* the page height and returns 1.0 when both lie within the zone's ranges
\* (bounds included), 0.5 when exactly one does, 0.0 when neither does; it
\* returns no other value.
C19_PositionScore ==
    (PositionDone /\ ret.raised = "") =>
        /\ ret.value \in {Zero, Ratio(1, 2), One}
        /\ call.field \notin DOMAIN ClaimedZones => ret.value = One
        /\ call.field \in DOMAIN ClaimedZones =>
              ret.value = Ratio(CoordinatesWithin, 2)

\* C19 witness: lastName at x = 0.8 of the width, on the bound, and y = 0.31
\* of the height, outside, scored 0.5
C19_Witness ==
    /\ PositionDone
    /\ call.field = S_lastName
    /\ call.position.y = 31
    /\ "x" \in DOMAIN call.position
    /\ call.position.x = 80
    /\ call.page_dims = [width |-> 100, height |-> 100]
    /\ ret = [raised |-> "", value |-> Ratio(1, 2)]

(***************************************************************************)
(* Claims about _extract_bounding_box.                                     *)
(***************************************************************************)
BoundingBoxDone == pc = "done" /\ call.op = "_extract_bounding_box"

\* what the claim calls the default box
ClaimedDefaultBox == [x |-> 0, y |-> 0, width |-> 100, height |-> 20]

\* the encoding the first element announces: "points", "flat", "pairs", or
\* "unrecognised"
Encoding(polygon) ==
    IF "point" \in DOMAIN polygon[1] /\ DOMAIN polygon[1].point = {"x", "y"}
    THEN "points"
    ELSE IF "num" \in DOMAIN polygon[1] THEN "flat"
    ELSE IF "list" \in DOMAIN polygon[1] /\ Len(polygon[1].list) = 2 THEN "pairs"
    ELSE "unrecognised"

\* a later element the computation fails on: one that is not of the
\* announced encoding, or that holds a coordinate that is no number
FailsOn(polygon, i) ==
    LET p == polygon[i]
    IN  IF Encoding(polygon) = "points"
        THEN \/ "point" \notin DOMAIN p
             \/ DOMAIN p.point # {"x", "y"}
             \/ "num" \notin DOMAIN p.point.x
             \/ "num" \notin DOMAIN p.point.y
        ELSE IF Encoding(polygon) = "flat" THEN "num" \notin DOMAIN p
        ELSE \/ "list" \notin DOMAIN p
             \/ Len(p.list) < 2
             \/ "num" \notin DOMAIN p.list[1]
             \/ "num" \notin DOMAIN p.list[2]

\* the cases in which the claim promises the default box
DefaultCase(polygon) ==
    \/ "elements" \notin DOMAIN polygon
    \/ polygon.elements = <<>>
    \/ Encoding(polygon.elements) = "unrecognised"
    \/ Encoding(polygon.elements) = "flat" /\ Len(polygon.elements) % 2 = 1
    \/ \E i \in 1..Len(polygon.elements) : FailsOn(polygon.elements, i)

\* C15: _extract_bounding_box lets no exception through and always returns a
\* box with the keys x, y, width, height; for an empty or absent polygon, a
\* flat list of odd length, a first element of unrecognised shape, or an
\* element that makes the computation fail, the box is the default box.
C15_BoundingBoxNeverRaises ==
    BoundingBoxDone =>
        /\ DOMAIN ret = {"x", "y", "width", "height"}
        /\ DefaultCase(call.polygon) => ret = ClaimedDefaultBox

\* C15 witness: a list of pairs whose third element is None, which p[0]
\* fails on, gave the default box
C15_Witness ==
    /\ BoundingBoxDone
    /\ call.polygon = [elements |-> <<PairAt(1, 2), PairAt(3, 0), None>>]
    /\ ret = ClaimedDefaultBox

(***************************************************************************)
(* Claims about extract_structured_data.                                   *)
(***************************************************************************)
ExtractDone == pc = "done" /\ call.op = "extract_structured_data"

\* the mapping has exactly the keys of the schema, every section of the
\* schema is a mapping of that shape, and every leaf is a string
RECURSIVE ShapedAs(_, _)
ShapedAs(mapping, schema) ==
    /\ Len(mapping) = Len(schema)
    /\ {mapping[i].k : i \in 1..Len(mapping)} = {schema[i].k : i \in 1..Len(schema)}
    /\ \A i \in 1..Len(mapping) : \A j \in 1..Len(schema) :
          mapping[i].k = schema[j].k =>
              IF "dict" \in DOMAIN schema[j].v
              THEN /\ "dict" \in DOMAIN mapping[i].v
                   /\ ShapedAs(mapping[i].v.dict, schema[j].v.dict)
              ELSE "str" \in DOMAIN mapping[i].v

\* C18: for any JSON object the model answers, the extraction returned by
\* extract_structured_data has exactly the keys of the expected schema at
\* every nesting level, and every leaf is a string, the empty string when
\* the source has no value: never null and never absent.
C18_SchemaShapedStringLeaves ==
    ExtractDone => ShapedAs(ret, expected_schema)

(***************************************************************************)
(* Claims about _check_consistency_with_ocr on a simple value.             *)
(***************************************************************************)
ConsistencyDone == pc = "done" /\ call.op = "_check_consistency_with_ocr"

SimpleValue == "str" \in DOMAIN call.value

\* the whitespace-separated tokens of s: the maximal runs without whitespace
TokensOf(s) ==
    {SubSeq(s, i, j) : i \in 1..Len(s), j \in 1..Len(s)} \cap
    {SubSeq(s, i, j) : <<i, j>> \in
        {p \in (1..Len(s)) \X (1..Len(s)) :
            /\ p[1] <= p[2]
            /\ \A k \in p[1]..p[2] : s[k] \notin SpaceChars
            /\ p[1] = 1 \/ s[p[1] - 1] \in SpaceChars
            /\ p[2] = Len(s) \/ s[p[2] + 1] \in SpaceChars}}

\* the tokens of the lowercased value that are longer than 3 characters
SignificantTokens == {t \in TokensOf(lower(call.value.str)) : Len(t) > 3}

OccursIn(t, text) ==
    \E k \in 0..(Len(text) - Len(t)) : SubSeq(text, k + 1, k + Len(t)) = t

\* the texts of the spans one after another, with nothing between them
RECURSIVE Concatenation(_)
Concatenation(texts) ==
    IF texts = <<>> THEN <<>> ELSE Head(texts) \o Concatenation(Tail(texts))

\* the texts of the spans one after another, a single space between two
RECURSIVE SpacedConcatenation(_)
SpacedConcatenation(texts) ==
    IF texts = <<>> THEN <<>>
    ELSE IF Len(texts) = 1 THEN texts[1]
    ELSE Head(texts) \o <<" ">> \o SpacedConcatenation(Tail(texts))

InventionFlagged ==
    \E i \in 1..Len(findings) : findings[i].kind = "POSSIBLE INVENTION"

\* C20 as stated: for a simple field value, the OCR-consistency check flags
\* a suspected invention if and only if the lowercased value has at least
\* one whitespace-separated token longer than 3 characters and none of
\* those tokens occurs in the lowercased concatenation of the OCR text
\* spans.
C20_InventionIffNoTokenInConcatenation ==
    ConsistencyDone /\ SimpleValue =>
        (InventionFlagged <=>
            /\ SignificantTokens # {}
            /\ \A t \in SignificantTokens :
                  ~OccursIn(t, lower(Concatenation(span_texts(call.ocr_data)))))

\* C20 with the text the code searches: for a simple field value, the
\* check flags a suspected invention if and only if the lowercased value
\* has at least one token longer than 3 characters and none of those
\* tokens occurs in the lowercased text of the spans joined by single
\* spaces; firstName John is not flagged when a span reads
\* "Name: JOHN SMITH", and firstName Zyxqpr is.
C20_InventionIffNoTokenInSpacedText ==
    /\ ConsistencyDone /\ SimpleValue =>
          (InventionFlagged <=>
              /\ SignificantTokens # {}
              /\ \A t \in SignificantTokens :
                    ~OccursIn(t, lower(SpacedConcatenation(span_texts(call.ocr_data)))))
    /\ ConsistencyDone /\ call.field_name = S_firstName
         /\ OccursIn(<<"j", "o", "h", "n", " ", "s", "m", "i", "t", "h">>,
                     lower(SpacedConcatenation(span_texts(call.ocr_data)))) =>
          /\ call.value = [str |-> V_John] => ~InventionFlagged
          /\ call.value = [str |-> V_Zyxqpr] => InventionFlagged

\* firstName Zyxqpr checked against the span "Name: JOHN SMITH" and flagged
C20_Witness ==
    /\ ConsistencyDone
    /\ call.field_name = S_firstName
    /\ call.value = [str |-> V_Zyxqpr]
    /\ span_texts(call.ocr_data) # <<>>
    /\ OccursIn(<<"j", "o", "h", "n", " ", "s", "m", "i", "t", "h">>,
                lower(SpacedConcatenation(span_texts(call.ocr_data))))
    /\ InventionFlagged

(***************************************************************************)
(* Claims about the OCR-consistency findings of validate_extracted_data.    *)
(***************************************************************************)
\* the OCR-consistency findings a pass over the extraction of the call logs
\* when it is given the OCR data ocr
FindingsWith(ocr) ==
    consistency_pass(format_checked(Flat), ocr, <<>>, call.now).findings

\* the average confidence the OCR data states, 0 when it states none
StatedConfidence(ocr) ==
    IF "average_confidence" \in DOMAIN ocr THEN ocr.average_confidence ELSE Zero

\* C12: for a fixed structured extraction, two validate_extracted_data
\* calls given OCR data that differ in their text spans return identical
\* completeness and accuracy sections (counts, scores, missing_required,
\* invalid_fields); only confidence.score, copied from the OCR
\* average_confidence (0 when absent), may differ.
C12_FindingsAreAdvisory ==
    DataDone =>
        /\ ret.confidence.score = StatedConfidence(call.ocr_data)
        /\ DOMAIN ret = {"completeness", "accuracy", "confidence"}
        /\ \A ocr \in OcrDatas \cup ConsistencyOcrDatas :
              LET other == validate_extracted_data(call.structured_data, ocr)
              IN  /\ other.completeness = ret.completeness
                  /\ other.accuracy = ret.accuracy
                  /\ other.confidence.score = StatedConfidence(ocr)

\* a pass that logs a suspected invention and still scores the accuracy 1,
\* for an extraction that logs nothing with other text spans
C12_Witness ==
    /\ DataDone
    /\ \E i \in 1..Len(findings) : findings[i].kind = "POSSIBLE INVENTION"
    /\ ret.accuracy.score = One
    /\ ret.accuracy.total_fields > 0
    /\ \E ocr \in OcrDatas :
          /\ span_texts(ocr) # span_texts(call.ocr_data)
          /\ FindingsWith(ocr) = <<>>

(***************************************************************************)
(* Claims about _flatten_dict.                                             *)
(***************************************************************************)
\* the dotted paths of the leaves of a nested mapping, one per leaf, in the
\* order of the mapping
RECURSIVE LeafPaths(_, _)
LeafPaths(mapping, prefix) ==
    IF mapping = <<>> THEN <<>>
    ELSE LET path == IF prefix # <<>> THEN prefix \o <<".">> \o Head(mapping).k
                     ELSE Head(mapping).k
         IN  (IF "dict" \in DOMAIN Head(mapping).v
              THEN LeafPaths(Head(mapping).v.dict, path)
              ELSE <<path>>)
             \o LeafPaths(Tail(mapping), prefix)

\* C16: flattening a structured extraction yields one distinct dotted path
\* per leaf value: no two different leaves of the nested mapping get the
\* same flattened key, the flattened mapping has as many entries as the
\* nested mapping has leaves, and completeness.total_fields is the number
\* of leaves.
C16_OnePathPerLeaf ==
    DataDone =>
        LET paths == LeafPaths(call.structured_data, <<>>)
        IN  /\ \A i, j \in 1..Len(paths) : paths[i] = paths[j] => i = j
            /\ Len(Flat) = Len(paths)
            /\ {Flat[i].k : i \in 1..Len(Flat)} = {paths[i] : i \in 1..Len(paths)}
            /\ ret.completeness.total_fields = Len(paths)

(***************************************************************************)
(* Claims about the date check of a validate_extracted_data pass.          *)
(***************************************************************************)
\* the date of a section with numeric day, month and year, as <<y, m, d>>
DateOf(section) ==
    <<DigitsValue(value_at(section, S_year).str), DigitsValue(value_at(section, S_month).str),
      DigitsValue(value_at(section, S_day).str)>>

\* the extraction of the call holds the section name with numeric day, month
\* and year
HoldsDate(name) ==
    /\ has_key(call.structured_data, name)
    /\ "dict" \in DOMAIN value_at(call.structured_data, name)
    /\ LET section == value_at(call.structured_data, name).dict
       IN  \A part \in {S_day, S_month, S_year} :
              /\ has_key(section, part)
              /\ "str" \in DOMAIN value_at(section, part)
              /\ isdigit(value_at(section, part).str)

\* C17: during one validate_extracted_data pass over an extraction that
\* holds both an injury date and a form-filling date, each with numeric
\* day, month and year, the date check is run on these date fields (the
\* injury date is retained), and a form-filling date earlier than the
\* injury date is flagged as a logic error in that pass.
C17_FillingBeforeInjuryFlagged ==
    DataDone /\ HoldsDate(S_dateOfInjury) /\ HoldsDate(S_formFillingDate) =>
        LET injury  == DateOf(value_at(call.structured_data, S_dateOfInjury).dict)
            filling == DateOf(value_at(call.structured_data, S_formFillingDate).dict)
        IN  /\ injury_date = injury
            /\ (filling[1] < injury[1]
                  \/ (filling[1] = injury[1] /\ filling[2] < injury[2])
                  \/ (filling[1] = injury[1] /\ filling[2] = injury[2]
                       /\ filling[3] < injury[3]))
                 => \E i \in 1..Len(findings) :
                       findings[i].kind = "LOGIC ERROR: filling date before injury date"

(***************************************************************************)
(* Claims about the closest OCR token of a token that is not found.        *)
(***************************************************************************)
\* the OCR tokens: the whitespace-separated runs of the lowercased span
\* texts, in reading order
OcrCorpus == lower(SpacedConcatenation(span_texts(call.ocr_data)))

\* the starts of the tokens of text, in increasing order
TokenStarts(text) ==
    {i \in 1..Len(text) :
        text[i] \notin SpaceChars /\ (i = 1 \/ text[i - 1] \in SpaceChars)}

\* the token of text that starts at i
TokenAt(text, i) ==
    LET ends == {j \in i..Len(text) :
                    /\ \A k \in i..j : text[k] \notin SpaceChars
                    /\ j = Len(text) \/ text[j + 1] \in SpaceChars}
    IN  SubSeq(text, i, CHOOSE j \in ends : TRUE)

\* (number of characters of token that occur in other) / max of the lengths
ClaimedScore(token, other) ==
    Ratio(Cardinality({i \in 1..Len(token) :
                          \E j \in 1..Len(other) : other[j] = token[i]}),
          IF Len(token) >= Len(other) THEN Len(token) ELSE Len(other))

\* the starts of the OCR tokens longer than 3 that score above 0.6
Candidates(token) ==
    {i \in TokenStarts(OcrCorpus) :
        /\ Len(TokenAt(OcrCorpus, i)) > 3
        /\ ~RatLeq(ClaimedScore(token, TokenAt(OcrCorpus, i)), Ratio(6, 10))}

\* the earliest candidate of the highest score
BestCandidate(token) ==
    CHOOSE i \in Candidates(token) :
        \A j \in Candidates(token) :
            LET si == ClaimedScore(token, TokenAt(OcrCorpus, i))
                sj == ClaimedScore(token, TokenAt(OcrCorpus, j))
            IN  RatLeq(sj, si) /\ (sj = si => i <= j)

\* the findings about token: the reports of a similar token or of none
ReportsAbout(token) ==
    {i \in 1..Len(findings) :
        /\ findings[i].kind \in {"similar token", "token not found"}
        /\ findings[i].value = token}

\* C21: for a significant token absent from the OCR corpus, the reported
\* closest match is an OCR token of length > 3 that maximises score =
\* (characters of the token that occur in the OCR token) / max(len(token),
\* len(OCR token)) among the OCR tokens scoring strictly above 0.6, the
\* earliest such token winning ties; when no OCR token scores above 0.6 no
\* match is reported; and the score is always within [0,1].
C21_ClosestMatch ==
    ConsistencyDone /\ SimpleValue =>
        /\ \A t \in SignificantTokens :
              IF OccursIn(t, OcrCorpus) THEN ReportsAbout(t) = {}
              ELSE /\ ReportsAbout(t) # {}
                   /\ \A i \in ReportsAbout(t) :
                         IF Candidates(t) = {}
                         THEN /\ findings[i].kind = "token not found"
                              /\ findings[i].match = <<>>
                         ELSE /\ findings[i].kind = "similar token"
                              /\ findings[i].match = TokenAt(OcrCorpus, BestCandidate(t))
                              /\ findings[i].score =
                                     ClaimedScore(t, TokenAt(OcrCorpus, BestCandidate(t)))
        /\ \A i \in 1..Len(findings) :
              /\ InUnitInterval(findings[i].score)
              /\ findings[i].kind = "similar token" =>
                    /\ Len(findings[i].match) > 3
                    /\ ~RatLeq(findings[i].score, Ratio(6, 10))

\* the token johm checked against "joha john ...": joha and john both score
\* 3/4 and the earlier one is reported
C21_Witness ==
    /\ ConsistencyDone /\ SimpleValue
    /\ \E t \in SignificantTokens :
          /\ ~OccursIn(t, OcrCorpus)
          /\ Cardinality({i \in Candidates(t) :
                  ClaimedScore(t, TokenAt(OcrCorpus, i))
                      = ClaimedScore(t, TokenAt(OcrCorpus, BestCandidate(t)))}) >= 2
          /\ \E i \in ReportsAbout(t) :
                findings[i].match = TokenAt(OcrCorpus, BestCandidate(t))

(***************************************************************************)
(* Claims about _check_consistency_with_ocr on a mapping.                  *)
(***************************************************************************)
MappingValue == "dict" \in DOMAIN call.value

\* the value without the whitespace around it
RECURSIVE Trimmed(_)
Trimmed(s) ==
    IF s = <<>> THEN s
    ELSE IF s[1] \in SpaceChars THEN Trimmed(Tail(s))
    ELSE IF s[Len(s)] \in SpaceChars THEN Trimmed(SubSeq(s, 1, Len(s) - 1))
    ELSE s

\* the places of the sub-components that hold something once trimmed
PopulatedComponents ==
    {i \in 1..Len(call.value.dict) : Trimmed(call.value.dict[i].v.str) # <<>>}

\* the populated sub-components whose lowercased, trimmed value occurs in the
\* OCR corpus
FoundComponents ==
    {i \in PopulatedComponents :
        OccursIn(lower(Trimmed(call.value.dict[i].v.str)), OcrCorpus)}

FieldFlagged ==
    \E i \in 1..Len(findings) :
        findings[i].kind = "SUSPECT DATA" /\ findings[i].field = call.field_name

\* C22: for a mapping-valued field, _check_consistency_with_ocr tests each
\* non-empty sub-component independently for verbatim (lowercased, trimmed)
\* presence in the OCR corpus and flags the whole field as a possible
\* invention if and only if at least one sub-component is populated and
\* fewer than half of the populated sub-components are found; exactly half
\* found is not flagged, and a mapping with no populated sub-component is
\* never flagged.
C22_MappingFlaggedIffFewerThanHalfFound ==
    ConsistencyDone /\ MappingValue =>
        /\ FieldFlagged <=>
              /\ PopulatedComponents # {}
              /\ 2 * Cardinality(FoundComponents) < Cardinality(PopulatedComponents)
        /\ \A i \in 1..Len(call.value.dict) :
              (\E j \in 1..Len(findings) :
                  /\ findings[j].kind = "component not found"
                  /\ findings[j].field = call.field_name \o <<".">> \o call.value.dict[i].k)
              <=> i \in PopulatedComponents \ FoundComponents

\* a mapping with two populated sub-components, one of them found: not flagged
C22_Witness ==
    /\ ConsistencyDone /\ MappingValue
    /\ Cardinality(PopulatedComponents) = 2
    /\ Cardinality(FoundComponents) = 1
    /\ ~FieldFlagged

(***************************************************************************)
(* Claims about the type-substitution check.                               *)
(***************************************************************************)
TypeSubstitutionFlagged ==
    \E i \in 1..Len(findings) : findings[i].kind = "TYPE SUBSTITUTION"

\* the value of the call, trimmed, without its hyphens and spaces
WithoutHyphensAndSpaces ==
    LET Kept(c) == c \notin {"-", " "}
    IN  SelectSeq(Trimmed(call.value.str), Kept)

\* C23: the OCR-consistency check flags a type-substitution defect for
\* every non-empty scalar value of a field inferred as numeric or phone
\* that still contains a non-digit character after hyphens and spaces are
\* removed, and for every non-empty value of a field inferred as text that
\* consists only of digits; it flags no type-substitution defect in any
\* other case.
C23_TypeSubstitutionFlagged ==
    ConsistencyDone /\ SimpleValue =>
        (TypeSubstitutionFlagged <=>
            /\ Trimmed(call.value.str) # <<>>
            /\ \/ /\ _infer_field_type(call.field_name) \in {"numeric", "phone"}
                  /\ \E i \in 1..Len(WithoutHyphensAndSpaces) :
                        ~IsDigit(WithoutHyphensAndSpaces[i])
               \/ /\ _infer_field_type(call.field_name) = "text"
                  /\ \A i \in 1..Len(Trimmed(call.value.str)) :
                        IsDigit(Trimmed(call.value.str)[i]))

(***************************************************************************)
(* Claims about _validate_spatial_coherence.                               *)
(***************************************************************************)
CoherenceDone == pc = "done" /\ call.op = "_validate_spatial_coherence"

\* the IoU of the box of the call and the box of the element at place i
OverlapWith(i) ==
    _calculate_overlap(call.bbox, box_or_empty(call.all_elements[i]))

\* the places whose box equals the box of the call
SameBox ==
    {i \in 1..Len(call.all_elements) :
        /\ "bounding_box" \in DOMAIN call.all_elements[i]
        /\ call.all_elements[i].bounding_box = call.bbox}

\* the places of the elements other than the element itself: every place
\* but one of those that hold the box of the call
OtherElements ==
    IF SameBox = {} THEN 1..Len(call.all_elements)
    ELSE (1..Len(call.all_elements)) \ {CHOOSE i \in SameBox : TRUE}

RECURSIVE SumOverlaps(_)
SumOverlaps(places) ==
    IF places = {} THEN Zero
    ELSE LET i == CHOOSE p \in places : TRUE
         IN  RatAdd(OverlapWith(i), SumOverlaps(places \ {i}))

\* the average IoU over the other elements, 0 when there is none
AverageOverlap ==
    IF OtherElements = {} THEN Zero
    ELSE RatDiv(SumOverlaps(OtherElements), Ratio(Cardinality(OtherElements), 1))

\* C24: _validate_spatial_coherence(bbox, all_elements) averages the IoU
\* between bbox and the box of every element other than the element
\* itself and returns 1 - min(average / 0.3, 1): the result is in [0,1], is
\* 1 when there is no other element or no overlap, and is 0 when the
\* average is 0.3 or more; another element whose box equals bbox still
\* counts in the average as an overlap of 1.
C24_CoherenceFromAverageIoU ==
    CoherenceDone =>
        /\ ~ret.raised
        /\ InUnitInterval(ret.value)
        /\ ret.value = RatSub(One, RatMin(RatDiv(AverageOverlap, Ratio(3, 10)), One))
        /\ AverageOverlap = Zero => ret.value = One
        /\ RatLeq(Ratio(3, 10), AverageOverlap) => ret.value = Zero

(***************************************************************************)
(* Claims about the calls made one after another on one validator.         *)
(***************************************************************************)
\* the places of history that hold a check of a date whose day, month and
\* year make a calendar date, for a field whose name holds the word
DateChecks(word) ==
    {k \in 1..Len(history) :
        /\ history[k].call.op = "_check_consistency_with_ocr"
        /\ "dict" \in DOMAIN history[k].call.value
        /\ OccursIgnoringCase(word, history[k].call.field_name)
        /\ LET date == DateOf(history[k].call.value.dict)
           IN  datetime_error(date[1], date[2], date[3]) = ""}

CheckedDate(k) == DateOf(history[k].call.value.dict)

\* the place where the pass of place k began: the latest earlier
\* validate_extracted_data call, or the construction of the validator
PassStart(k) ==
    LET starts == {j \in 1..(k - 1) :
                      history[j].call.op \in {"validate_extracted_data", "__init__"}}
    IN  CHOOSE j \in starts : \A i \in starts : i <= j

\* the checks of an injury date made in the pass of place k before place k
InjuryChecksOfPass(k) ==
    {j \in DateChecks(<<"i", "n", "j", "u", "r", "y">>) : PassStart(k) < j /\ j < k}

FlaggedBeforeInjury(k) ==
    \E i \in 1..Len(history[k].findings) :
        history[k].findings[i].kind = "LOGIC ERROR: filling date before injury date"

Earlier(a, b) ==
    \/ a[1] < b[1]
    \/ a[1] = b[1] /\ a[2] < b[2]
    \/ a[1] = b[1] /\ a[2] = b[2] /\ a[3] < b[3]

\* C25: in any sequence of date-coherence checks on one validator over
\* several validation passes, the injury date a filling date is compared
\* with is the most recently seen valid injury date of the current pass: an
\* injury date stored during an earlier pass is never used, and a filling
\* date checked before any injury date of its own pass is compared with
\* nothing.
C25_InjuryDateOfCurrentPass ==
    \A k \in DateChecks(<<"f", "i", "l", "l", "i", "n", "g">>) :
        IF InjuryChecksOfPass(k) = {} THEN ~FlaggedBeforeInjury(k)
        ELSE LET latest == CHOOSE j \in InjuryChecksOfPass(k) :
                               \A i \in InjuryChecksOfPass(k) : i <= j
             IN  FlaggedBeforeInjury(k) <=> Earlier(CheckedDate(k), CheckedDate(latest))

(***************************************************************************)
(* Claims about _extract_bounding_box on a well-formed polygon.            *)
(***************************************************************************)
\* a polygon whose elements are all of one of the three encodings, with
\* numbers for coordinates, and an even length when it is a flat list
WellFormed(polygon) ==
    /\ "elements" \in DOMAIN polygon
    /\ polygon.elements # <<>>
    /\ Encoding(polygon.elements) # "unrecognised"
    /\ Encoding(polygon.elements) = "flat" => Len(polygon.elements) % 2 = 0
    /\ \A i \in 1..Len(polygon.elements) : ~FailsOn(polygon.elements, i)

\* the points of a well-formed polygon, each as <<x, y>>
PointsOf(polygon) ==
    LET e == polygon.elements
    IN  IF Encoding(e) = "points"
        THEN [i \in 1..Len(e) |-> <<e[i].point.x.num, e[i].point.y.num>>]
        ELSE IF Encoding(e) = "pairs"
        THEN [i \in 1..Len(e) |-> <<e[i].list[1].num, e[i].list[2].num>>]
        ELSE [i \in 1..(Len(e) \div 2) |-> <<e[2 * i - 1].num, e[2 * i].num>>]

\* the points written in an encoding
Encoded(points, encoding) ==
    [elements |->
        IF encoding = "points"
        THEN [i \in 1..Len(points) |-> PointAt(points[i][1], points[i][2])]
        ELSE IF encoding = "pairs"
        THEN [i \in 1..Len(points) |-> PairAt(points[i][1], points[i][2])]
        ELSE [i \in 1..(2 * Len(points)) |->
                [num |-> points[(i + 1) \div 2][IF i % 2 = 1 THEN 1 ELSE 2]]]]

Least(numbers)    == CHOOSE n \in numbers : \A m \in numbers : n <= m
Greatest(numbers) == CHOOSE n \in numbers : \A m \in numbers : n >= m

\* the smallest box that holds the points
ClaimedBox(points) ==
    LET xs == {points[i][1] : i \in 1..Len(points)}
        ys == {points[i][2] : i \in 1..Len(points)}
    IN  [x |-> Least(xs), y |-> Least(ys),
         width |-> Greatest(xs) - Least(xs), height |-> Greatest(ys) - Least(ys)]

\* C26: for a well-formed polygon, _extract_bounding_box returns x = min of
\* the x coordinates, y = min of the y coordinates, width = max x - min x
\* and height = max y - min y, so width and height are never negative, and
\* the same points given in any of the three encodings (objects with x and
\* y, flat list of alternating coordinates, list of pairs) give the same
\* box.
C26_BoxOfWellFormedPolygon ==
    BoundingBoxDone /\ WellFormed(call.polygon) =>
        /\ ret = ClaimedBox(PointsOf(call.polygon))
        /\ ret.width >= 0 /\ ret.height >= 0
        /\ \A encoding \in {"points", "flat", "pairs"} :
              _extract_bounding_box(Encoded(PointsOf(call.polygon), encoding)) = ret

\* a polygon of several points whose first point is not the leftmost, and
\* whose box is not the default box
C26_Witness ==
    /\ BoundingBoxDone /\ WellFormed(call.polygon)
    /\ Len(PointsOf(call.polygon)) >= 2
    /\ PointsOf(call.polygon)[1][1] > ret.x
    /\ ret.width > 0 /\ ret.height > 0
    /\ ret # ClaimedDefaultBox

(***************************************************************************)
(* Claims about the matching of required names.                            *)
(***************************************************************************)
\* the last characters of key are exactly the characters of name
EndsExactlyWith(key, name) ==
    /\ Len(name) <= Len(key)
    /\ \A i \in 1..Len(name) : key[Len(key) - Len(name) + i] = name[i]

ListedMissing(key) ==
    \E j \in 1..Len(ret.completeness.missing_required) :
        ret.completeness.missing_required[j] = key

\* C27 as stated: the required-field check matches a required name against
\* the end of the flattened key, so an empty leaf with a longer name that
\* shares the suffix, such as spouseFirstName for the required field
\* firstName, is treated as that required field and is listed in
\* completeness.missing_required.
C27_SpouseFirstNameListed ==
    DataDone =>
        \A i \in 1..Len(Flat) :
            Flat[i].k = S_spouseFirstName /\ ~NonEmptyTrimmed(Flat[i].v)
                => ListedMissing(Flat[i].k)

\* C27 with the comparison the code makes: the required name is compared,
\* capitals and small letters told apart, with the end of the flattened
\* key, so an empty leaf with a longer name that ends with the very
\* characters of the name, such as spousefirstName, is listed in
\* completeness.missing_required, and spouseFirstName, which ends with
\* FirstName, is not.
C27_LongerNameListedIffExactSuffix ==
    DataDone =>
        \A i \in 1..Len(Flat) :
            /\ ListedMissing(Flat[i].k) <=>
                  /\ ~NonEmptyTrimmed(Flat[i].v)
                  /\ \E name \in RequiredNames : EndsExactlyWith(Flat[i].k, name)
            /\ Flat[i].k = S_spousefirstName /\ Flat[i].v = <<>> => ListedMissing(Flat[i].k)
            /\ Flat[i].k = S_spouseFirstName => ~ListedMissing(Flat[i].k)

\* an extraction whose empty leaf spousefirstName was listed and whose empty
\* leaf spouseFirstName was not
C27_Witness ==
    /\ DataDone
    /\ \E i, j \in 1..Len(Flat) :
          /\ Flat[i].k = S_spousefirstName /\ Flat[i].v = <<>>
          /\ Flat[j].k = S_spouseFirstName /\ Flat[j].v = <<>>
    /\ ListedMissing(S_spousefirstName)
    /\ ~ListedMissing(S_spouseFirstName)

(***************************************************************************)
(* Claims about what validate_extracted_data leaves behind.                *)
(***************************************************************************)
\* the places of history that hold a validate_extracted_data call
ValidateCalls ==
    {k \in 1..Len(history) : history[k].call.op = "validate_extracted_data"}

\* what the same call logs on a validator that has just been constructed
FreshFindings(made) ==
    consistency_pass(format_checked(_flatten_dict(made.structured_data, <<>>)),
                     made.ocr_data, <<>>, made.now).findings

\* C28: validate_extracted_data never changes the validator instance (the
\* stored injury date; patterns, required fields and thresholds are fixed)
\* nor its arguments; hence, after any sequence of earlier calls on the same
\* instance, a call logs and returns what the same call does on a fresh
\* validator.
C28_ValidateLeavesInstanceUnchanged ==
    /\ \A k \in ValidateCalls :
          /\ history[k].left = history[k].stored
          /\ history[k].findings = FreshFindings(history[k].call)
    /\ pc = "done" /\ call.op = "validate_extracted_data" =>
          /\ history[Len(history)].call = call
          /\ ret = validate_extracted_data(call.structured_data, call.ocr_data)
          /\ injury_date = history[Len(history)].stored

\* a pass over an extraction with an injury date and a filling date, made on
\* a validator that holds another injury date from an earlier check, and a
\* second pass after it
C28_Witness ==
    /\ pc = "done" /\ call.op = "validate_extracted_data"
    /\ Cardinality(ValidateCalls) >= 2
    /\ \E k \in ValidateCalls :
          /\ history[k].stored = <<2024, 5, 10>>
          /\ history[k].left = <<2024, 5, 10>>
          /\ has_key(history[k].call.structured_data, S_injuryDate)

(***************************************************************************)
(* Claims about required fields that the extraction does not hold.         *)
(***************************************************************************)
\* the required names that no flattened key ends with
AbsentRequiredNames ==
    {name \in RequiredNames :
        \A i \in 1..Len(Flat) : ~EndsExactlyWith(Flat[i].k, name)}

\* C29: completeness.missing_required only ever contains keys that exist in
\* the flattened extraction: a required field (lastName, firstName or
\* idNumber) that no flattened key ends with is not reported at all, so an
\* extraction lacking all three required fields, the empty extraction
\* included, yields missing_required == [].
C29_AbsentRequiredFieldNotReported ==
    DataDone =>
        /\ \A j \in 1..Len(ret.completeness.missing_required) :
              /\ \E i \in 1..Len(Flat) : Flat[i].k = ret.completeness.missing_required[j]
              /\ \A name \in AbsentRequiredNames :
                    ~EndsExactlyWith(ret.completeness.missing_required[j], name)
        /\ AbsentRequiredNames = RequiredNames => ret.completeness.missing_required = <<>>
        /\ call.structured_data = <<>> => ret.completeness.missing_required = <<>>

\* an extraction that holds leaves but none of the three required fields,
\* validated with nothing reported missing
C29_Witness ==
    /\ DataDone
    /\ Flat # <<>>
    /\ AbsentRequiredNames = RequiredNames
    /\ ret.completeness.missing_required = <<>>
    /\ ret.completeness.total_fields > 0

(***************************************************************************)
(* Claims about the statistics kept by StatisticsTracker.track_document.   *)
(***************************************************************************)
TrackerDone == pc = "done" /\ history # <<>> /\ history[1].call = TrackerConstructor

\* the document ids given to track_document so far
TrackedSoFar == {history[i].call.doc_id : i \in 2..Len(history)}

EntriesOf(doc_id) == {i \in 1..Len(data.documents) : data.documents[i].id = doc_id}

EntriesWith(field) ==
    {i \in 1..Len(data.documents) : has_key(data.documents[i].field_results, field)}

\* the fields that the statistics or a document entry know of
FieldsKnown ==
    {data.field_stats[i].k : i \in 1..Len(data.field_stats)}
    \cup UNION {{data.documents[i].field_results[j].k :
                    j \in 1..Len(data.documents[i].field_results)} :
                 i \in 1..Len(data.documents)}

StatsOf(field) ==
    IF has_key(data.field_stats, field) THEN item_get(data.field_stats, field)
    ELSE zero_stats

\* C30: after any sequence of track_document calls, re-tracking a document
\* id included, data.documents holds exactly one entry per distinct document
\* id, and for every field, field_stats[field].total equals the number of
\* entries of data.documents whose field_results contain that field and
\* equals the sum of the per-status counts recorded for that field.
C30_OneEntryPerIdAndTotalsAgree ==
    TrackerDone =>
        /\ \A doc_id \in TrackedSoFar : Cardinality(EntriesOf(doc_id)) = 1
        /\ \A i \in 1..Len(data.documents) : data.documents[i].id \in TrackedSoFar
        /\ \A field \in FieldsKnown :
              /\ StatsOf(field).total = Cardinality(EntriesWith(field))
              /\ StatsOf(field).total
                    = StatsOf(field).empty + StatsOf(field).valid + StatsOf(field).invalid

====
